---- MODULE Spec2Model ----
(***************************************************************************)
(* Span ingestion poller of junjo-server (backend/app/features/            *)
(* span_ingestion/background_poller.py), with the DuckDB span processor    *)
(* (span_processor.py), the SQLite poller_state repository and the         *)
(* upstream ingestion service's ReadSpans stream; the Internal Auth        *)
(* ValidateApiKey handler (internal_auth/grpc_service.py) and the          *)
(* application's shutdown sequence (main.py lifespan).                      *)
(***************************************************************************)
EXTENDS Integers, Sequences, FiniteSets, TLC

(* ------------------------------ bounds -------------------------------- *)
MaxLog == 3          \* frames the upstream write-ahead log can hold
BatchSize == 2       \* settings.span_ingestion.SPAN_BATCH_SIZE of the run
MaxRestarts == 1     \* process crashes followed by a restart
MaxFailures == 1     \* transient failures (RPC, transaction, patch, save)

(* ------------------------------- data --------------------------------- *)
\* (trace_id, span_id) pairs the producers use
SpanIds == {1, 2}
\* number of "set_state" events a span carries (each at event time 1..n)
EventCounts == {0, 1}

\* start_key_ulid of a poller without saved state: last_key = b""
EmptyKey == << >>
\* SQL NULL in poller_state.last_key; None returned by scalar_one_or_none
\* (a value of the keys' shape that no key equals)
Null == <<"NULL">>

\* span_bytes that do not parse as an OTLP Span
CorruptBytes == [ok |-> FALSE, id |-> 0, ev |-> 0]
\* span_bytes the producers send: span 1 with or without a set_state event,
\* span 2 without one, and bytes that do not parse
SpanBytes ==
    {b \in [ok : {TRUE}, id : SpanIds, ev : EventCounts] : b.id = 1 \/ b.ev = 0}
        \cup {CorruptBytes}

\* the i-th key of the upstream log: time-ordered, fixed-width byte string
KeyOf(i) == <<i \div 2, i % 2>>
\* the position in the log of the frame stored under key k
IdxOf(k) == 2 * k[1] + k[2]

\* the Resource a producer sends with its spans: one service per span
\* identity; the resource sent with unparsable span_bytes names no service
ResourceOf(b) ==
    IF ~b.ok THEN [service_name |-> "NULL"]
    ELSE IF b.id = 1 THEN [service_name |-> "svcA"]
    ELSE [service_name |-> "svcB"]

\* byte-lexicographic order on cursors (Python bytes comparison)
RECURSIVE LexLeq(_, _)
LexLeq(a, b) ==
    IF a = << >> THEN TRUE
    ELSE IF b = << >> THEN FALSE
    ELSE IF a[1] < b[1] THEN TRUE
    ELSE IF a[1] > b[1] THEN FALSE
    ELSE LexLeq(Tail(a), Tail(b))

LexLess(a, b) == LexLeq(a, b) /\ a # b

\* key_prefix = api_key[:12] if len(api_key) >= 12 else "***"
KeyPrefixLen == 12
Stars == <<"*", "*", "*">>

\* api_key values as character sequences: a key of exactly KeyPrefixLen
\* characters and two longer keys that share it as their prefix
Key12 == [i \in 1..KeyPrefixLen |-> "k"]
KeyX == Key12 \o <<"x">>
KeyY == Key12 \o <<"y">>
\* request.api_key of the callers: empty, and the three keys above
RequestKeys == {<< >>, Key12, KeyX, KeyY}

\* no conversion has run, no request has been served
NoCall == [op |-> "none"]

\* a session of the poller_state repository with nothing pending, nothing
\* loaded and nothing committed
Unset == <<"unset">>
NoSession == [pending |-> Unset, loaded |-> Unset, last_commit |-> Unset]
\* no span store operation is running: no connection, no transaction
NoOperation == [op |-> "none", at |-> "idle", open |-> FALSE, tx |-> FALSE,
                left |-> 0, failed |-> {}, result |-> "none"]

\* the ValidateApiKey invocations that can be in flight together
CallIds == {"c1", "c2"}
\* an invocation that has not been received yet; at_start is history: what
\* api_keys held for the key when the invocation was received
IdleCall == [pc |-> "idle", api_key |-> << >>, db_error |-> FALSE,
             is_valid |-> "none", logged |-> {},
             at_start |-> [stored |-> FALSE, deleted |-> FALSE]]

VARIABLES
    log,            \* upstream write-ahead log: sequence of frames
    pc,             \* position of the poller coroutine
    epoch,          \* number of process restarts so far
    failures,       \* transient failures injected so far
    last_key,       \* the poller's in-memory cursor
    readStart,      \* start_key_ulid of the latest ReadSpans request
    batch,          \* spans_with_resources of the current cycle
    outcome,        \* how the latest finished poll cycle ended
    spans,          \* DuckDB table spans (committed rows)
    state_patches,  \* DuckDB table state_patches (committed rows)
    poller_state,   \* SQLite table poller_state (committed rows)
    committed,      \* history: log indexes of frames processed in a committed transaction
    channel,        \* the poller's gRPC channel to the upstream reader
    life,           \* position of the lifespan coroutine (up, then the shutdown steps)
    grpc_server,    \* the module-level _grpc_server of grpc_server.py
    grpc_task,      \* the task running start_grpc_server_background
    row_store,      \* the SQLite engine: WAL checkpointed, connections disposed
    api_keys,       \* SQLite table api_keys: the stored key values
    calls,          \* the ValidateApiKey handler invocations
    otlp,           \* the span handed to process_single_span and the row it builds
    request,        \* the HTTP read request being served and its response
    session,        \* a PollerStateRepository session: pending change, last load, last commit
    rpc,            \* the ReadSpans response stream handed to read_spans and its result
    conn,           \* the span store operation in progress: its connection and transaction
    issued          \* every API key value generate_key has handed out so far

\* what the lifespan, the gRPC server and its handlers own
srvVars == <<life, grpc_server, grpc_task, row_store, api_keys, calls>>

\* what the span conversion, the HTTP read helpers and the repository
\* sessions outside the poller own
fnVars == <<otlp, request, session, rpc, conn, issued>>

vars == <<log, pc, epoch, failures, last_key, readStart, batch, outcome,
          spans, state_patches, poller_state, committed, channel, srvVars, fnVars>>

(* --------------------------- upstream reader -------------------------- *)
\* ReadSpans(start_key, batch_size): the records strictly after start_key,
\* in ascending key order, capped at batch_size
RECURSIVE TakeAfter(_, _, _, _)
TakeAfter(l, start, n, i) ==
    IF i > Len(l) \/ n = 0 THEN << >>
    ELSE IF LexLess(start, l[i].key_ulid)
         THEN <<l[i]>> \o TakeAfter(l, start, n - 1, i + 1)
         ELSE TakeAfter(l, start, n, i + 1)

ReadSpansStream(start) == TakeAfter(log, start, BatchSize, 1)

\* the upstream appends one frame under the next key
Produce ==
    /\ Len(log) < MaxLog
    /\ \E b \in SpanBytes :
          log' = Append(log, [key_ulid |-> KeyOf(Len(log) + 1), span_bytes |-> b,
                              resource_bytes |-> ResourceOf(b)])
    /\ UNCHANGED <<pc, epoch, failures, last_key, readStart, batch, outcome,
                   spans, state_patches, poller_state, committed>>
    /\ UNCHANGED <<channel, srvVars>>
    /\ UNCHANGED fnVars

(* -------------------------- ingestion client -------------------------- *)
\* the response streams of a ReadSpans call: the frames under the first keys
\* of a log, in key order, ended by the status of the call
RECURSIVE StreamsOfLen(_)
StreamsOfLen(n) ==
    IF n = 0 THEN {<< >>}
    ELSE {Append(r, [key_ulid |-> KeyOf(n), span_bytes |-> b,
                     resource_bytes |-> ResourceOf(b)]) :
             r \in StreamsOfLen(n - 1), b \in SpanBytes}
Streams ==
    [records : UNION {StreamsOfLen(n) : n \in 0..MaxLog},
     status : {"OK", "UNAVAILABLE"}]

\* SpanWithResource(key_ulid=..., span_bytes=..., resource_bytes=...)
SpanWithResource(response) ==
    [key_ulid |-> response.key_ulid, span_bytes |-> response.span_bytes,
     resource_bytes |-> response.resource_bytes]

\* async for response in self.stub.ReadSpans(request): spans.append(...)
RECURSIVE Collect(_, _, _)
Collect(records, i, collected) ==
    IF i > Len(records) THEN collected
    ELSE Collect(records, i + 1, Append(collected, SpanWithResource(records[i])))

\* mutant: an RPC error is logged and the frames received so far are returned
read_spans_partial(stub, stream) ==
    IF ~stub THEN [raised |-> TRUE, error |-> "not connected"]
    ELSE [raised |-> FALSE, spans |-> Collect(stream.records, 1, << >>)]

\* IngestionClient.read_spans: without a stub it raises; the whole stream is
\* collected and returned; an RPC error ends the loop, is logged and raised
\* again, the list is dropped
read_spans(stub, stream) ==
    IF ~stub THEN [raised |-> TRUE, error |-> "not connected"]
    ELSE IF stream.status # "OK" THEN [raised |-> TRUE, error |-> stream.status]
    ELSE [raised |-> FALSE, spans |-> Collect(stream.records, 1, << >>)]

\* one call of read_spans on a client (connected or not) whose RPC streams
\* stream
CallReadSpans(stub, stream) ==
    /\ rpc' = [op |-> "read_spans", stub |-> stub, stream |-> stream,
               res |-> read_spans(stub, stream)]
    /\ UNCHANGED <<log, pc, epoch, failures, last_key, readStart, batch, outcome,
                   spans, state_patches, poller_state, committed, channel>>
    /\ UNCHANGED <<srvVars, otlp, request, session, conn, issued>>

StreamNext == \E stub \in BOOLEAN : \E stream \in Streams : CallReadSpans(stub, stream)

(* --------------------------- poller_state ----------------------------- *)
\* PollerStateRepository.get_last_key: scalar_one_or_none of the row id = 1
get_last_key(table) ==
    IF \E r \in table : r.id = 1
    THEN (CHOOSE r \in table : r.id = 1).last_key
    ELSE Null

\* mutant: the save adds a row without looking for the existing one
upsert_last_key_add(table, k) == table \cup {[id |-> 1, last_key |-> k]}

\* PollerStateRepository.upsert_last_key followed by session.commit()
upsert_last_key(table, k) ==
    IF \E r \in table : r.id = 1
    THEN {IF r.id = 1 THEN [r EXCEPT !.last_key = k] ELSE r : r \in table}
    ELSE table \cup {[id |-> 1, last_key |-> k]}

\* PollerStateRepository.clear_state: an existing row gets last_key NULL
clear_state(table) == {[r EXCEPT !.last_key = Null] : r \in table}

\* the keys a caller of the repository saves
SavedKeys == {KeyOf(i) : i \in 1..MaxLog}

\* upsert_last_key(k) in a session: the change is pending until the commit
RepoUpsert(k) ==
    /\ session' = [session EXCEPT !.pending = k]
    /\ UNCHANGED <<log, pc, epoch, failures, last_key, readStart, batch, outcome,
                   spans, state_patches, poller_state, committed, channel>>
    /\ UNCHANGED <<srvVars, otlp, request, rpc, conn, issued>>

\* clear_state() in a session: pending only when the row exists
RepoClear ==
    /\ poller_state # {}
    /\ session' = [session EXCEPT !.pending = Null]
    /\ UNCHANGED <<log, pc, epoch, failures, last_key, readStart, batch, outcome,
                   spans, state_patches, poller_state, committed, channel>>
    /\ UNCHANGED <<srvVars, otlp, request, rpc, conn, issued>>

\* session.commit(): the pending change reaches the table
RepoCommit ==
    /\ session.pending # Unset
    /\ poller_state' = (IF session.pending = Null THEN clear_state(poller_state)
                        ELSE upsert_last_key(poller_state, session.pending))
    /\ session' = [session EXCEPT !.pending = Unset, !.last_commit = session.pending]
    /\ UNCHANGED <<log, pc, epoch, failures, last_key, readStart, batch, outcome,
                   spans, state_patches, committed, channel>>
    /\ UNCHANGED <<srvVars, otlp, request, rpc, conn, issued>>

\* the session is closed without a commit: the pending change is dropped
RepoRollback ==
    /\ session.pending # Unset
    /\ session' = [session EXCEPT !.pending = Unset]
    /\ UNCHANGED <<log, pc, epoch, failures, last_key, readStart, batch, outcome,
                   spans, state_patches, poller_state, committed, channel>>
    /\ UNCHANGED <<srvVars, otlp, request, rpc, conn, issued>>

\* get_last_key() in a new session: reads what is committed
RepoLoad ==
    /\ session.pending = Unset
    /\ session' = [session EXCEPT !.loaded = get_last_key(poller_state)]
    /\ UNCHANGED <<log, pc, epoch, failures, last_key, readStart, batch, outcome,
                   spans, state_patches, poller_state, committed, channel>>
    /\ UNCHANGED <<srvVars, otlp, request, rpc, conn, issued>>

RepoNext ==
    \/ \E k \in SavedKeys : RepoUpsert(k)
    \/ RepoClear
    \/ RepoCommit
    \/ RepoRollback
    \/ RepoLoad

(* --------------------------- span processor --------------------------- *)
\* mutant: a plain INSERT that adds the row whatever the table holds
InsertSpanNoIgnore(table, row) == table \cup {row}

\* mutant: INSERT OR REPLACE, the new row takes the place of the existing one
InsertSpanReplace(table, row) == {r \in table : r.id # row.id} \cup {row}

\* INSERT OR IGNORE INTO spans: a row whose primary key exists is dropped
InsertSpan(table, row) ==
    IF \E r \in table : r.id = row.id THEN table ELSE table \cup {row}

\* mutant: each row is stamped with the service of its own frame's resource
SpanRowOwnService(service_name, span) ==
    [id |-> span.id, service_name |-> ResourceOf(span).service_name,
     events |-> span.ev]

\* process_single_span: the row written for one decoded span
SpanRow(service_name, span) ==
    [id |-> span.id, service_name |-> service_name, events |-> span.ev]

\* patch_id = str(uuid.uuid4()): a value no row of the table carries
FreshPatchId(table) == Cardinality(table) + 1

\* INSERT OR IGNORE INTO state_patches: the primary key is the fresh patch_id
InsertPatch(table, service_name, span, t) ==
    table \cup {[patch_id |-> FreshPatchId(table), id |-> span.id,
                 event_time |-> t, service_name |-> service_name]}

RECURSIVE process_state_patches(_, _, _, _, _)
\* mutant: the first insert that raises ends the loop over the events
process_state_patches_stop(table, service_name, span, t, failed) ==
    IF t > span.ev \/ t \in failed THEN table
    ELSE process_state_patches(InsertPatch(table, service_name, span, t),
                               service_name, span, t + 1, failed)

\* process_state_patches: one insert per set_state event; an insert that
\* raises (event times in failed) is logged and skipped
process_state_patches(table, service_name, span, t, failed) ==
    IF t > span.ev THEN table
    ELSE process_state_patches(
            IF t \in failed THEN table ELSE InsertPatch(table, service_name, span, t),
            service_name, span, t + 1, failed)

\* the loop of process_span_batch over the decoded spans: the tables after
\* every span and its patches were inserted inside the transaction
RECURSIVE InsertAll(_, _, _, _, _)
InsertAll(tabs, service_name, ps, i, failed) ==
    IF i > Len(ps) THEN tabs
    ELSE InsertAll(
            [spans |-> InsertSpan(tabs.spans, SpanRow(service_name, ps[i].span_bytes)),
             patches |-> process_state_patches(tabs.patches, service_name,
                                               ps[i].span_bytes, 1, failed[i])],
            service_name, ps, i + 1, failed)

\* SpanIngestionSettings.SPAN_STRICT_MODE: "If True, fail entire batch on state
\* patch errors"; default False
SPAN_STRICT_MODE == FALSE

\* mutant: the setting is honoured, a patch insert that raises under strict
\* mode fails the batch
process_span_batch_strict(strict, tabs, service_name, ps, failed) ==
    IF strict /\ \E i \in DOMAIN failed : failed[i] # {}
    THEN [raised |-> TRUE, tabs |-> tabs]
    ELSE [raised |-> FALSE, tabs |-> InsertAll(tabs, service_name, ps, 1, failed)]

\* process_span_batch run to its COMMIT in a process whose settings carry
\* SPAN_STRICT_MODE = strict: patch inserts that raise are skipped
process_span_batch(strict, tabs, service_name, ps, failed) ==
    [raised |-> FALSE, tabs |-> InsertAll(tabs, service_name, ps, 1, failed)]

\* batches of decoded spans with up to two set_state events each
BatchSpans == [ok : {TRUE}, id : SpanIds, ev : {0, 1, 2}]
Batches ==
    {<<[span_bytes |-> a]>> : a \in BatchSpans}
        \cup {<<[span_bytes |-> a], [span_bytes |-> b]>> : a \in BatchSpans, b \in BatchSpans}

\* process_span_batch is run on an empty store over one batch, with the patch
\* inserts in failed raising
RunBatch(ps, failed) ==
    /\ otlp' = [op |-> "process_span_batch", spans |-> ps, failed |-> failed,
                res |-> process_span_batch(SPAN_STRICT_MODE,
                                           [spans |-> {}, patches |-> {}],
                                           "svcA", ps, failed)]
    /\ UNCHANGED <<log, pc, epoch, failures, last_key, readStart, batch, outcome,
                   spans, state_patches, poller_state, committed, channel>>
    /\ UNCHANGED <<srvVars, request, session, rpc, conn, issued>>

BatchNext ==
    \E ps \in Batches :
        \E failed \in {f \in [1..Len(ps) -> SUBSET {1, 2}] :
                           \A i \in 1..Len(ps) : f[i] \subseteq 1..ps[i].span_bytes.ev} :
            RunBatch(ps, failed)

(* ------------------------ span store connection ---------------------- *)
\* the read helpers of the span store: each runs one query on its own connection
ReadHelpers == {"get_distinct_service_names", "get_service_spans", "get_root_spans",
                "get_root_spans_with_llm", "get_workflow_spans", "get_trace_spans",
                "get_span"}

\* the frame conditions of the steps of a span store operation
ConnFrame ==
    /\ UNCHANGED <<log, pc, epoch, failures, last_key, readStart, batch, outcome,
                   spans, state_patches, poller_state, committed, channel>>
    /\ UNCHANGED <<srvVars, otlp, request, session, rpc, issued>>

\* an operation is called once no other is running: process_span_batch over
\* n spans, or a read helper
ConnStart(op, n) ==
    /\ conn.at \in {"idle", "closed"}
    /\ conn' = [op |-> op, at |-> "connect", open |-> FALSE, tx |-> FALSE,
                left |-> n, failed |-> {}, result |-> "running"]
    /\ ConnFrame

\* get_connection: duckdb.connect returns, the body of the with statement runs
ConnConnect ==
    /\ conn.at = "connect"
    /\ conn' = [conn EXCEPT !.open = TRUE,
                            !.at = IF conn.op = "process_span_batch" THEN "begin"
                                   ELSE "query"]
    /\ ConnFrame

\* get_connection: duckdb.connect raises, before the try statement: there is
\* no connection and the body does not run
ConnConnectFails ==
    /\ conn.at = "connect"
    /\ conn' = [conn EXCEPT !.at = "closed", !.failed = @ \cup {"connect"},
                            !.result = "raised"]
    /\ ConnFrame

\* conn.execute("BEGIN TRANSACTION")
TxBegin ==
    /\ conn.at = "begin"
    /\ conn' = [conn EXCEPT !.tx = TRUE, !.at = "insert"]
    /\ ConnFrame

\* BEGIN raises: the except clause runs
TxBeginFails ==
    /\ conn.at = "begin"
    /\ conn' = [conn EXCEPT !.at = "rollback", !.failed = @ \cup {"BEGIN"}]
    /\ ConnFrame

\* process_single_span and process_state_patches of the next span return
TxInsert ==
    /\ conn.at = "insert" /\ conn.left > 0
    /\ conn' = [conn EXCEPT !.left = @ - 1]
    /\ ConnFrame

\* a state patch insert of the next span raises: process_state_patches logs
\* the error and the loop goes on
TxPatchFails ==
    /\ conn.at = "insert" /\ conn.left > 0
    /\ conn' = [conn EXCEPT !.failed = @ \cup {"PATCH"}]
    /\ ConnFrame

\* the insert of the next span raises: the except clause runs
TxInsertFails ==
    /\ conn.at = "insert" /\ conn.left > 0
    /\ conn' = [conn EXCEPT !.at = "rollback", !.failed = @ \cup {"INSERT"}]
    /\ ConnFrame

\* conn.execute("COMMIT") after the last span
TxCommit ==
    /\ conn.at = "insert" /\ conn.left = 0
    /\ conn' = [conn EXCEPT !.tx = FALSE, !.at = "close", !.result = "returning"]
    /\ ConnFrame

\* COMMIT raises: the except clause runs, the transaction may still be open
TxCommitFails ==
    /\ conn.at = "insert" /\ conn.left = 0
    /\ \E tx \in BOOLEAN :
          conn' = [conn EXCEPT !.tx = tx, !.at = "rollback", !.failed = @ \cup {"COMMIT"}]
    /\ ConnFrame

\* except: conn.execute("ROLLBACK"), then raise
TxRollback ==
    /\ conn.at = "rollback" /\ conn.tx
    /\ conn' = [conn EXCEPT !.tx = FALSE, !.at = "close", !.result = "raising"]
    /\ ConnFrame

\* mutant: get_connection without try/finally: an error that leaves the body
\* of the with statement skips conn.close()
TxRollbackFailsNoFinally ==
    /\ conn.at = "rollback"
    /\ conn' = [conn EXCEPT !.at = "closed", !.failed = @ \cup {"ROLLBACK"},
                            !.result = "raised"]
    /\ ConnFrame

\* ROLLBACK raises (always when no transaction is open): its error leaves the
\* except clause and the with statement
TxRollbackFails ==
    /\ conn.at = "rollback"
    /\ conn' = [conn EXCEPT !.at = "close", !.failed = @ \cup {"ROLLBACK"},
                            !.result = "raising"]
    /\ ConnFrame

\* a read helper's conn.execute(...).fetchall() returns
QueryRun ==
    /\ conn.at = "query"
    /\ conn' = [conn EXCEPT !.at = "close", !.result = "returning"]
    /\ ConnFrame

\* a read helper's query raises
QueryFails ==
    /\ conn.at = "query"
    /\ conn' = [conn EXCEPT !.at = "close", !.failed = @ \cup {"SELECT"},
                            !.result = "raising"]
    /\ ConnFrame

\* get_connection, finally: conn.close(); closing ends an open transaction;
\* the operation then returns or its error goes on to the caller
ConnClose ==
    /\ conn.at = "close"
    /\ conn' = [conn EXCEPT !.open = FALSE, !.tx = FALSE, !.at = "closed",
                            !.result = IF conn.result = "returning" THEN "returned"
                                       ELSE "raised"]
    /\ ConnFrame

ConnNext ==
    \/ \E n \in 1..BatchSize : ConnStart("process_span_batch", n)
    \/ \E op \in ReadHelpers : ConnStart(op, 0)
    \/ ConnConnect
    \/ ConnConnectFails
    \/ TxBegin
    \/ TxBeginFails
    \/ TxInsert
    \/ TxPatchFails
    \/ TxInsertFails
    \/ TxCommit
    \/ TxCommitFails
    \/ TxRollback
    \/ TxRollbackFails
    \/ QueryRun
    \/ QueryFails
    \/ ConnClose

(* -------------------------- span conversion --------------------------- *)
\* attribute keys stored in dedicated columns (filtered from attributes_json)
JUNJO_FILTERED_ATTRIBUTES ==
    {"junjo.workflow_id", "node.id", "junjo.id", "junjo.parent_id", "junjo.span_type",
     "junjo.workflow.state.start", "junjo.workflow.state.end",
     "junjo.workflow.graph_structure", "junjo.workflow.store.id"}

\* string values a producer may put into a JSON-valued attribute
EmptyObject == "{}"
ObjectText == "{\"a\": 1}"
ArrayText == "[1]"
MalformedText == "{oops"

\* json.loads(text): the kind of value it returns, or that it raises
JsonKind(text) ==
    IF text \in {EmptyObject, ObjectText} THEN "object"
    ELSE IF text = ArrayText THEN "array"
    ELSE "error"

\* a KeyValue whose AnyValue has the given field set ("none": no field set)
KeyValue(key, type, v) == [key |-> key, value |-> [type |-> type, v |-> v]]

\* the attribute under key is absent, or carries one of the values
Opt(key, values) == {<< >>} \cup {<<KeyValue(key, x[1], x[2])>> : x \in values}

\* span.attributes of the spans the producers send
Attributes ==
    {a \o b \o c \o d \o e \o f :
        a \in Opt("junjo.span_type", {<<"string_value", "workflow">>,
                                      <<"string_value", "subflow">>,
                                      <<"string_value", "node">>}),
        b \in Opt("junjo.workflow.state.start", {<<"string_value", ObjectText>>,
                                                 <<"string_value", ArrayText>>,
                                                 <<"string_value", MalformedText>>,
                                                 <<"int_value", "1">>}),
        c \in Opt("junjo.workflow.state.end", {<<"string_value", ObjectText>>}),
        d \in Opt("junjo.workflow.graph_structure", {<<"string_value", ObjectText>>}),
        e \in Opt("http.method", {<<"string_value", "GET">>, <<"none", "">>}),
        f \in Opt("node.id", {<<"string_value", "n1">>})}

\* span ids are 8 bytes
SpanIdLen == 8
\* parent_span_id of the spans: empty, all zero, and two other ids
ZeroParent == [i \in 1..SpanIdLen |-> 0]
ParentIds ==
    {<< >>, ZeroParent, [i \in 1..SpanIdLen |-> IF i = SpanIdLen THEN 1 ELSE 0],
     [i \in 1..SpanIdLen |-> 171]}

\* the spans handed to process_single_span
OtlpSpans == [parent_span_id : ParentIds, attributes : Attributes]

\* bytes.hex(): two lowercase hexadecimal digits per byte
HexDigits == <<"0", "1", "2", "3", "4", "5", "6", "7",
               "8", "9", "a", "b", "c", "d", "e", "f">>
RECURSIVE Hex(_)
Hex(bytes) ==
    IF bytes = << >> THEN << >>
    ELSE <<HexDigits[(Head(bytes) \div 16) + 1], HexDigits[(Head(bytes) % 16) + 1]>>
             \o Hex(Tail(bytes))

\* extract_string_attribute: the first string-valued attribute under key, or ""
RECURSIVE extract_string_attribute(_, _)
extract_string_attribute(attributes, key) ==
    IF attributes = << >> THEN ""
    ELSE IF Head(attributes).key = key /\ Head(attributes).value.type = "string_value"
         THEN Head(attributes).value.v
         ELSE extract_string_attribute(Tail(attributes), key)

\* extract_json_attribute: the first string-valued attribute under key, or "{}"
RECURSIVE extract_json_attribute(_, _)
extract_json_attribute(attributes, key) ==
    IF attributes = << >> THEN EmptyObject
    ELSE IF Head(attributes).key = key /\ Head(attributes).value.type = "string_value"
         THEN Head(attributes).value.v
         ELSE extract_json_attribute(Tail(attributes), key)

\* mutant: only the keys that are extracted into columns are filtered, the
\* two legacy keys stay
filter_junjo_extracted(attributes) ==
    SelectSeq(attributes,
              LAMBDA attr : attr.key \notin
                  (JUNJO_FILTERED_ATTRIBUTES \ {"junjo.workflow_id", "node.id"}))

\* filter_junjo_attributes
filter_junjo_attributes(attributes) ==
    SelectSeq(attributes, LAMBDA attr : attr.key \notin JUNJO_FILTERED_ATTRIBUTES)

\* convert_attributes_to_json: the JSON object as its key/value pairs; a
\* value with no field set converts to None and is left out, a later
\* attribute overwrites an earlier one under the same key
convert_attributes_to_json(attributes) ==
    {[key |-> attributes[i].key, v |-> attributes[i].value.v] :
        i \in {j \in 1..Len(attributes) :
                 /\ attributes[j].value.type # "none"
                 /\ \A k \in (j + 1)..Len(attributes) :
                       attributes[k].key = attributes[j].key
                           => attributes[k].value.type = "none"}}

\* process_single_span: the parameters of the INSERT (the columns the
\* conversions above decide; SpanRow is its projection for the poller)
process_single_span(service_name, span) ==
    LET junjo_span_type == extract_string_attribute(span.attributes, "junjo.span_type")
        wf == junjo_span_type \in {"workflow", "subflow"}
    IN [parent_span_id |-> IF span.parent_span_id # << >>
                           THEN Hex(span.parent_span_id) ELSE Null,
        service_name |-> service_name,
        junjo_span_type |-> junjo_span_type,
        junjo_wf_state_start |->
            IF wf THEN extract_json_attribute(span.attributes, "junjo.workflow.state.start")
            ELSE EmptyObject,
        junjo_wf_state_end |->
            IF wf THEN extract_json_attribute(span.attributes, "junjo.workflow.state.end")
            ELSE EmptyObject,
        junjo_wf_graph_structure |->
            IF wf THEN extract_json_attribute(span.attributes,
                                              "junjo.workflow.graph_structure")
            ELSE EmptyObject,
        attributes_json |-> convert_attributes_to_json(filter_junjo_attributes(span.attributes))]

\* mutant: a subflow span passes its junjo.id on as workflow_id too
span_identifiers_subflow(span) ==
    LET junjo_span_type == extract_string_attribute(span.attributes, "junjo.span_type")
        junjo_id == extract_string_attribute(span.attributes, "junjo.id")
    IN [workflow_id |-> IF junjo_span_type \in {"workflow", "subflow"}
                        THEN junjo_id ELSE "",
        node_id |-> IF junjo_span_type = "node" THEN junjo_id ELSE ""]

\* process_single_span: the workflow_id and node_id it returns for the state
\* patches of the span
span_identifiers(span) ==
    LET junjo_span_type == extract_string_attribute(span.attributes, "junjo.span_type")
        junjo_id == extract_string_attribute(span.attributes, "junjo.id")
    IN [workflow_id |-> IF junjo_span_type = "workflow" THEN junjo_id ELSE "",
        node_id |-> IF junjo_span_type = "node" THEN junjo_id ELSE ""]

\* process_state_patches: the parameters of the INSERT for one set_state event
state_patch_row(service_name, ids, event_time) ==
    [service_name |-> service_name, workflow_id |-> ids.workflow_id,
     node_id |-> ids.node_id, event_time |-> event_time]

\* spans with and without a type and an id, also of a non-string kind
IdSpans ==
    [attributes :
        {a \o b :
            a \in Opt("junjo.span_type", {<<"string_value", "workflow">>,
                                          <<"string_value", "subflow">>,
                                          <<"string_value", "node">>,
                                          <<"int_value", "1">>}),
            b \in Opt("junjo.id", {<<"string_value", "j1">>, <<"string_value", "j2">>,
                                   <<"string_value", "">>, <<"int_value", "7">>})}]

\* a span with one set_state event is processed: its identifiers are
\* extracted and the patch row is built from them
ExtractPatch(service_name, span, event_time) ==
    /\ otlp' = [op |-> "process_state_patches", span |-> span,
                patch |-> state_patch_row(service_name, span_identifiers(span),
                                          event_time)]
    /\ UNCHANGED <<log, pc, epoch, failures, last_key, readStart, batch, outcome,
                   spans, state_patches, poller_state, committed, channel>>
    /\ UNCHANGED <<srvVars, request, session, rpc, conn, issued>>

IdNext ==
    \E service_name \in {"svcA", "svcB", "NO_SERVICE_NAME"} :
        \E span \in IdSpans : \E event_time \in {1, 2} :
            ExtractPatch(service_name, span, event_time)

(* ------------------------- value conversions -------------------------- *)
\* convert_kind: kind_map.get(kind, "UNSPECIFIED")
convert_kind(kind) ==
    IF kind \in 0..5
    THEN <<"UNSPECIFIED", "CLIENT", "SERVER", "INTERNAL", "PRODUCER", "CONSUMER">>[kind + 1]
    ELSE "UNSPECIFIED"

\* the characters of the strings: a letter, the two characters json.dumps
\* escapes with a backslash, and a non-ASCII character (e with acute accent)
Chars == {"a", "\"", "\\", "U+00E9"}

\* the values of the attributes: strings of up to two characters, integers up
\* to the largest 32-bit one, doubles with one decimal digit (among them 0.0
\* and -0.0), booleans, byte strings, and a value with no field set
AnyValues ==
    [type : {"string_value"},
     v : {<< >>} \cup {<<c>> : c \in Chars} \cup {<<c, d>> : c \in Chars, d \in Chars}]
    \cup [type : {"int_value"}, v : {0, 1, 0 - 1, 42, 2147483647, 0 - 2147483647}]
    \cup [type : {"double_value"},
          v : [neg : BOOLEAN, whole : {0, 3, 10}, tenths : {0, 1, 5}]]
    \cup [type : {"bool_value"}, v : BOOLEAN]
    \cup [type : {"bytes_value"}, v : {<< >>, <<72, 101>>, <<0, 255>>}]
    \cup {[type |-> "none", v |-> << >>]}

\* convert_otlp_value on the scalar kinds: the Python value, None for a value
\* with no field set
convert_otlp_value(value) ==
    CASE value.type = "string_value" -> [py |-> "str", v |-> value.v]
      [] value.type = "int_value" -> [py |-> "int", v |-> value.v]
      [] value.type = "double_value" -> [py |-> "float", v |-> value.v]
      [] value.type = "bool_value" -> [py |-> "bool", v |-> value.v]
      [] value.type = "bytes_value" -> [py |-> "str", v |-> Hex(value.v)]
      [] OTHER -> [py |-> "None", v |-> << >>]

\* mutant: "if converted_value:" in place of "is not None": values that are
\* false in Python (0, 0.0, "", False) are left out as well
IsKeptTruthy(converted) ==
    CASE converted.py = "None" -> FALSE
      [] converted.py = "str" -> converted.v # << >>
      [] converted.py = "int" -> converted.v # 0
      [] converted.py = "float" -> converted.v.whole # 0 \/ converted.v.tenths # 0
      [] OTHER -> converted.v

\* if converted_value is not None
IsKept(converted) == converted.py # "None"

\* str(n) of a natural number, as its characters
RECURSIVE Digits(_)
Digits(n) ==
    IF n < 10 THEN <<HexDigits[n + 1]>>
    ELSE Digits(n \div 10) \o <<HexDigits[(n % 10) + 1]>>

\* int(text) of a sequence of digit characters
RECURSIVE ParseDigits(_, _)
ParseDigits(text, acc) ==
    IF text = << >> THEN acc
    ELSE ParseDigits(Tail(text), 10 * acc + (CHOOSE d \in 0..9 : HexDigits[d + 1] = Head(text)))

\* the body of a JSON string as json.dumps writes it (ensure_ascii)
RECURSIVE Escape(_)
Escape(str) ==
    IF str = << >> THEN << >>
    ELSE (CASE Head(str) = "\"" -> <<"\\", "\"">>
            [] Head(str) = "\\" -> <<"\\", "\\">>
            [] Head(str) = "U+00E9" -> <<"\\", "u", "0", "0", "e", "9">>
            [] OTHER -> <<Head(str)>>) \o Escape(Tail(str))

\* the string json.loads reads from the body of a JSON string
RECURSIVE Unescape(_)
Unescape(text) ==
    IF text = << >> THEN << >>
    ELSE IF Head(text) # "\\" THEN <<Head(text)>> \o Unescape(Tail(text))
    ELSE IF text[2] = "u"
         THEN (IF SubSeq(text, 3, 6) = <<"0", "0", "e", "9">>
               THEN <<"U+00E9">> ELSE <<"?">>) \o Unescape(SubSeq(text, 7, Len(text)))
         ELSE <<text[2]>> \o Unescape(SubSeq(text, 3, Len(text)))

\* json.dumps of one converted value, as the characters of the JSON text
json_dumps(converted) ==
    CASE converted.py = "str" -> <<"\"">> \o Escape(converted.v) \o <<"\"">>
      [] converted.py = "int" ->
            IF converted.v < 0 THEN <<"-">> \o Digits(0 - converted.v)
            ELSE Digits(converted.v)
      [] converted.py = "float" ->
            (IF converted.v.neg THEN <<"-">> ELSE << >>)
                \o Digits(converted.v.whole) \o <<".">> \o Digits(converted.v.tenths)
      [] OTHER -> IF converted.v THEN <<"t", "r", "u", "e">>
                  ELSE <<"f", "a", "l", "s", "e">>

\* the position of the decimal point in a JSON number, 0 when it has none
PointAt(text) ==
    IF \E i \in 1..Len(text) : text[i] = "."
    THEN CHOOSE i \in 1..Len(text) : text[i] = "."
    ELSE 0

\* json.loads of the text of one value
json_loads(text) ==
    LET neg == Head(text) = "-"
        num == IF neg THEN Tail(text) ELSE text
    IN CASE Head(text) = "\"" ->
                [py |-> "str", v |-> Unescape(SubSeq(text, 2, Len(text) - 1))]
         [] Head(text) = "t" -> [py |-> "bool", v |-> TRUE]
         [] Head(text) = "f" -> [py |-> "bool", v |-> FALSE]
         [] OTHER ->
                IF PointAt(num) = 0
                THEN [py |-> "int",
                      v |-> IF neg THEN 0 - ParseDigits(num, 0) ELSE ParseDigits(num, 0)]
                ELSE [py |-> "float",
                      v |-> [neg |-> neg,
                             whole |-> ParseDigits(SubSeq(num, 1, PointAt(num) - 1), 0),
                             tenths |-> ParseDigits(SubSeq(num, PointAt(num) + 1,
                                                           Len(num)), 0)]]

\* convert_attributes_to_json with the values written out: the members of the
\* JSON object, each with the text of its value; a later attribute overwrites
\* an earlier one under the same key
attributes_json_text(attributes) ==
    {[key |-> attributes[i].key, text |-> json_dumps(convert_otlp_value(attributes[i].value))] :
        i \in {j \in 1..Len(attributes) :
                 /\ IsKept(convert_otlp_value(attributes[j].value))
                 /\ \A k \in (j + 1)..Len(attributes) :
                       attributes[k].key = attributes[j].key
                           => ~IsKept(convert_otlp_value(attributes[k].value))}}

\* json.loads of the object: its members with their parsed values
json_loads_object(members) ==
    {[key |-> m.key, value |-> json_loads(m.text)] : m \in members}

\* convert_kind is applied to the kind of a span
ConvertKind(kind) ==
    /\ otlp' = [op |-> "convert_kind", kind |-> kind, res |-> convert_kind(kind)]
    /\ UNCHANGED <<log, pc, epoch, failures, last_key, readStart, batch, outcome,
                   spans, state_patches, poller_state, committed, channel>>
    /\ UNCHANGED <<srvVars, request, session, rpc, conn, issued>>

\* the attributes of a span with one attribute are converted to JSON, and the
\* JSON is read back
ConvertAttribute(key, value) ==
    /\ LET json == attributes_json_text(<<[key |-> key, value |-> value]>>)
       IN otlp' = [op |-> "convert_attributes_to_json", key |-> key, value |-> value,
                   json |-> json, parsed |-> json_loads_object(json)]
    /\ UNCHANGED <<log, pc, epoch, failures, last_key, readStart, batch, outcome,
                   spans, state_patches, poller_state, committed, channel>>
    /\ UNCHANGED <<srvVars, request, session, rpc, conn, issued>>

ConvNext ==
    \/ \E kind \in (0 - 3)..8 : ConvertKind(kind)
    \/ \E key \in {"http.method", "bytes.attr"} : \E value \in AnyValues :
          ConvertAttribute(key, value)

\* one span is converted into the row that is inserted
ConvertSpan(span) ==
    /\ otlp' = [op |-> "process_single_span", span |-> span,
                row |-> process_single_span("svcA", span)]
    /\ UNCHANGED <<log, pc, epoch, failures, last_key, readStart, batch, outcome,
                   spans, state_patches, poller_state, committed, channel>>
    /\ UNCHANGED <<srvVars, request, session, rpc, conn, issued>>

RowNext == \E span \in OtlpSpans : ConvertSpan(span)

(* ---------------------------- read helpers ---------------------------- *)
\* limit: int = Query(default=500, ge=1, le=10000)
DefaultLimit == 500
LimitMin == 1
LimitMax == 10000

\* rows of the spans table as the read helpers see them: two root workflow
\* spans and a child of service svcA (two of them with the same start_time,
\* the child an LLM span of trace 1) and a root span of service svcB
QueryRows ==
    {[span_id |-> 1, trace_id |-> 1, service_name |-> "svcA", start_time |-> 1,
      parent_span_id |-> Null, junjo_span_type |-> "workflow", llm |-> FALSE],
     [span_id |-> 2, trace_id |-> 1, service_name |-> "svcA", start_time |-> 2,
      parent_span_id |-> Hex(<<0, 0, 0, 0, 0, 0, 0, 1>>), junjo_span_type |-> "",
      llm |-> TRUE],
     [span_id |-> 3, trace_id |-> 2, service_name |-> "svcA", start_time |-> 2,
      parent_span_id |-> Null, junjo_span_type |-> "workflow", llm |-> FALSE],
     [span_id |-> 4, trace_id |-> 3, service_name |-> "svcB", start_time |-> 3,
      parent_span_id |-> Null, junjo_span_type |-> "", llm |-> FALSE]}

\* the read endpoints that take a limit (spans/root without and with has_llm)
Endpoints == {"get_service_spans", "get_root_spans", "get_root_spans_with_llm",
              "get_workflow_spans"}

\* the query string: no limit, or limit=n
QueryParams == {<< >>} \cup {[limit |-> n] : n \in {0 - 1, 0, 1, 2, LimitMax, LimitMax + 1}}

\* mutant: the lower bound of the limit is 0
ValidLimitFromZero(n) == 0 <= n /\ n <= LimitMax

\* Query(ge=1, le=10000): the request validation of the limit
ValidLimit(n) == LimitMin <= n /\ n <= LimitMax

\* the WHERE clause of each helper's query
Where(endpoint, service_name, table) ==
    {r \in table :
        /\ r.service_name = service_name
        /\ endpoint \in {"get_root_spans", "get_root_spans_with_llm"}
              => r.parent_span_id = Null
        /\ endpoint = "get_root_spans_with_llm"
              => \E l \in table : l.trace_id = r.trace_id /\ l.llm
        /\ endpoint = "get_workflow_spans" => r.junjo_span_type = "workflow"}

\* ORDER BY start_time DESC: every order the engine may return (rows with
\* equal start_time in any order)
Orderings(S) ==
    {o \in [1..Cardinality(S) -> S] :
        /\ \A i \in DOMAIN o : \A j \in DOMAIN o : i # j => o[i] # o[j]
        /\ \A i \in DOMAIN o : \A j \in DOMAIN o :
              i < j => o[i].start_time >= o[j].start_time}

\* LIMIT ?: the first n rows of the ordered result
Fetch(S, n) ==
    {SubSeq(o, 1, IF n < Len(o) THEN n ELSE Len(o)) : o \in Orderings(S)}

\* one GET on a read endpoint against a store holding table: the limit is
\* validated before the handler body runs (422), otherwise the handler
\* passes it to the repository query
HandleRead(endpoint, service_name, params, table) ==
    /\ LET limit == IF "limit" \in DOMAIN params THEN params.limit ELSE DefaultLimit
           call == [op |-> endpoint, service_name |-> service_name,
                    params |-> params, table |-> table]
       IN IF "limit" \in DOMAIN params /\ ~ValidLimit(params.limit)
          THEN request' = [op |-> call.op, service_name |-> call.service_name,
                           params |-> call.params, table |-> call.table,
                           status |-> 422, queried |-> FALSE, limit |-> limit,
                           rows |-> << >>]
          ELSE \E rows \in Fetch(Where(endpoint, service_name, table), limit) :
                  request' = [op |-> call.op, service_name |-> call.service_name,
                              params |-> call.params, table |-> call.table,
                              status |-> 200, queried |-> TRUE, limit |-> limit,
                              rows |-> rows]
    /\ UNCHANGED <<log, pc, epoch, failures, last_key, readStart, batch, outcome,
                   spans, state_patches, poller_state, committed, channel>>
    /\ UNCHANGED <<srvVars, otlp, session, rpc, conn, issued>>

QueryNext ==
    \E endpoint \in Endpoints : \E service_name \in {"svcA", "svcB"} :
        \E params \in QueryParams : \E table \in SUBSET QueryRows :
            HandleRead(endpoint, service_name, params, table)

(* ------------------------------ poller -------------------------------- *)
\* span.ParseFromString succeeded: the frames kept in processed_spans
RECURSIVE Decoded(_)
Decoded(b) ==
    IF b = << >> THEN << >>
    ELSE (IF Head(b).span_bytes.ok THEN <<Head(b)>> ELSE << >>) \o Decoded(Tail(b))

\* mutant: the cursor taken from the last frame that decoded
NextKeyLastDecoded(b) ==
    IF Decoded(b) = << >> THEN b[Len(b)].key_ulid
    ELSE Decoded(b)[Len(Decoded(b))].key_ulid

\* last_key = spans_with_resources[-1].key_ulid
NextKey(b) == b[Len(b)].key_ulid

\* mutant: an empty read resets the cursor to the beginning
CursorAfterReadReset(cur, b) == IF b = << >> THEN EmptyKey ELSE NextKey(b)

\* the cursor after read_spans returned b: an empty list leaves it alone
\* (continue), otherwise it becomes the key of the last frame
CursorAfterRead(cur, b) == IF b = << >> THEN cur ELSE NextKey(b)

\* service_name: the string-valued service.name attribute of the resource of
\* spans_with_resources[0], or the default
ServiceName(b) ==
    IF b[1].resource_bytes.service_name = "NULL"
    THEN "NO_SERVICE_NAME"
    ELSE b[1].resource_bytes.service_name

\* a fresh deployment: both stores are empty
Init ==
    /\ log = << >>
    /\ pc = "connect"
    /\ epoch = 0
    /\ failures = 0
    /\ last_key = EmptyKey
    /\ readStart = EmptyKey
    /\ batch = << >>
    /\ outcome = "none"
    /\ spans = {}
    /\ state_patches = {}
    /\ poller_state = {}
    /\ committed = {}
    /\ channel = "none"
    /\ life = "up"
    /\ grpc_server = "none"
    /\ grpc_task = "starting"
    /\ row_store = [checkpointed |-> FALSE, disposed |-> FALSE]
    /\ api_keys = {}
    /\ calls = [c \in CallIds |-> IdleCall]
    /\ otlp = NoCall
    /\ request = NoCall
    /\ session = NoSession
    /\ rpc = NoCall
    /\ conn = NoOperation
    /\ issued = api_keys

\* the span store operations, one after the other, every statement of which
\* may fail
ConnSpec == Init /\ [][ConnNext]_vars

\* the identifiers of the state patches over typed and untyped spans
IdSpec == Init /\ [][IdNext]_vars

\* convert_kind and the JSON conversion of attribute values over their inputs
ConvSpec == Init /\ [][ConvNext]_vars

\* read_spans over every response stream
StreamSpec == Init /\ [][StreamNext]_vars

\* process_span_batch over every batch and every set of failing patch inserts
BatchSpec == Init /\ [][BatchNext]_vars

\* the read helpers over every store content and query string
QuerySpec == Init /\ [][QueryNext]_vars

\* process_single_span over the spans the producers send
RowSpec == Init /\ [][RowNext]_vars

\* the poller_state repository under any sequence of saves, clears and loads
RepoSpec == Init /\ [][RepoNext]_vars

\* client = IngestionClient(); await client.connect()
Connect ==
    /\ pc = "connect"
    /\ pc' = "load"
    /\ channel' = "open"
    /\ UNCHANGED <<log, epoch, failures, last_key, readStart, batch, outcome,
                   spans, state_patches, poller_state, committed>>
    /\ UNCHANGED srvVars
    /\ UNCHANGED fnVars

\* mutant: scalar_one() in place of scalar_one_or_none(): a missing row
\* raises NoResultFound, which ends the coroutine before the loop
LoadLastKeyScalarOne ==
    /\ pc = "load"
    /\ IF poller_state = {}
       THEN pc' = "stopped" /\ UNCHANGED last_key
       ELSE /\ last_key' = (IF get_last_key(poller_state) = Null
                            THEN EmptyKey ELSE get_last_key(poller_state))
            /\ pc' = "sleep"
    /\ UNCHANGED <<log, epoch, failures, readStart, batch, outcome,
                   spans, state_patches, poller_state, committed>>
    /\ UNCHANGED <<channel, srvVars>>
    /\ UNCHANGED fnVars

\* mutant: the loop reads first and sleeps afterwards
LoadLastKeyNoSleep ==
    /\ pc = "load"
    /\ last_key' = (IF get_last_key(poller_state) = Null
                    THEN EmptyKey ELSE get_last_key(poller_state))
    /\ pc' = "poll"
    /\ UNCHANGED <<log, epoch, failures, readStart, batch, outcome,
                   spans, state_patches, poller_state, committed>>
    /\ UNCHANGED <<channel, srvVars>>
    /\ UNCHANGED fnVars

\* mutant: the stored key is ignored, every run starts from the beginning
LoadLastKeyEmpty ==
    /\ pc = "load"
    /\ last_key' = EmptyKey
    /\ pc' = "sleep"
    /\ UNCHANGED <<log, epoch, failures, readStart, batch, outcome,
                   spans, state_patches, poller_state, committed>>
    /\ UNCHANGED <<channel, srvVars>>
    /\ UNCHANGED fnVars

\* last_key = await repo.get_last_key(); None or empty becomes b""
LoadLastKey ==
    /\ pc = "load"
    /\ last_key' = (IF get_last_key(poller_state) = Null
                    THEN EmptyKey ELSE get_last_key(poller_state))
    /\ pc' = "sleep"
    /\ UNCHANGED <<log, epoch, failures, readStart, batch, outcome,
                   spans, state_patches, poller_state, committed>>
    /\ UNCHANGED <<channel, srvVars>>
    /\ UNCHANGED fnVars

\* await asyncio.sleep(SPAN_POLL_INTERVAL)
Sleep ==
    /\ pc = "sleep"
    /\ pc' = "poll"
    /\ UNCHANGED <<log, epoch, failures, last_key, readStart, batch, outcome,
                   spans, state_patches, poller_state, committed>>
    /\ UNCHANGED <<channel, srvVars>>
    /\ UNCHANGED fnVars

\* mutant: the frames received before the stream broke are kept and the
\* cursor moves past them
ReadErrorPartial ==
    /\ pc = "poll"
    /\ failures < MaxFailures
    /\ failures' = failures + 1
    /\ readStart' = last_key
    /\ last_key' = CursorAfterRead(last_key, ReadSpansStream(last_key))
    /\ outcome' = "read_error"
    /\ pc' = "sleep"
    /\ UNCHANGED <<log, epoch, batch, spans, state_patches,
                   poller_state, committed>>
    /\ UNCHANGED <<channel, srvVars>>
    /\ UNCHANGED fnVars

\* client.read_spans raises (before the first frame or in mid-stream: the
\* list built so far is dropped): the outer except logs and continues
ReadError ==
    /\ pc = "poll"
    /\ failures < MaxFailures
    /\ failures' = failures + 1
    /\ readStart' = last_key
    /\ outcome' = "read_error"
    /\ pc' = "sleep"
    /\ UNCHANGED <<log, epoch, last_key, batch, spans, state_patches,
                   poller_state, committed>>
    /\ UNCHANGED <<channel, srvVars>>
    /\ UNCHANGED fnVars

\* mutant: the `continue` of the empty case is missing, the cycle goes on to
\* save the cursor
ReadSpansSavesEmpty ==
    /\ pc = "poll"
    /\ readStart' = last_key
    /\ batch' = ReadSpansStream(last_key)
    /\ last_key' = CursorAfterRead(last_key, batch')
    /\ IF batch' = << >>
       THEN outcome' = "empty" /\ pc' = "save"
       ELSE outcome' = "running" /\ pc' = "decode"
    /\ UNCHANGED <<log, epoch, failures, spans, state_patches, poller_state, committed>>
    /\ UNCHANGED <<channel, srvVars>>
    /\ UNCHANGED fnVars

\* client.read_spans returns; an empty list ends the cycle, otherwise the
\* cursor is set to the key of the last frame received
ReadSpans ==
    /\ pc = "poll"
    /\ readStart' = last_key
    /\ batch' = ReadSpansStream(last_key)
    /\ last_key' = CursorAfterRead(last_key, batch')
    /\ IF batch' = << >>
       THEN outcome' = "empty" /\ pc' = "sleep"
       ELSE outcome' = "running" /\ pc' = "decode"
    /\ UNCHANGED <<log, epoch, failures, spans, state_patches, poller_state, committed>>
    /\ UNCHANGED <<channel, srvVars>>
    /\ UNCHANGED fnVars

\* the unmarshal loop: when no frame parses the batch is skipped
Decode ==
    /\ pc = "decode"
    /\ IF Decoded(batch) = << >>
       THEN /\ outcome' = "all_corrupt"
            /\ pc' = "sleep"
       ELSE /\ outcome' = "running"
            /\ pc' = "process"
    /\ UNCHANGED <<log, epoch, failures, last_key, readStart, batch,
                   spans, state_patches, poller_state, committed>>
    /\ UNCHANGED <<channel, srvVars>>
    /\ UNCHANGED fnVars

\* the sets of patch inserts that may raise: none, or (with a failure left)
\* any choice of set_state events per decoded span
PatchFailures(ps) ==
    {f \in [1..Len(ps) -> SUBSET EventCounts] :
        \A i \in 1..Len(ps) : f[i] \subseteq 1..ps[i].span_bytes.ev}

\* process_span_batch commits: every decoded span and every patch whose
\* insert did not raise becomes visible at once
ProcessCommit ==
    /\ pc = "process"
    /\ \E failed \in PatchFailures(Decoded(batch)) :
          /\ IF \A i \in DOMAIN failed : failed[i] = {}
             THEN UNCHANGED failures
             ELSE failures < MaxFailures /\ failures' = failures + 1
          /\ LET res == process_span_batch(SPAN_STRICT_MODE,
                                           [spans |-> spans, patches |-> state_patches],
                                           ServiceName(batch), Decoded(batch), failed)
             IN /\ ~res.raised
                /\ spans' = res.tabs.spans
                /\ state_patches' = res.tabs.patches
    /\ committed' = committed \cup
          {IdxOf(Decoded(batch)[i].key_ulid) : i \in 1..Len(Decoded(batch))}
    /\ pc' = "save"
    /\ UNCHANGED <<log, epoch, last_key, readStart, batch, outcome, poller_state>>
    /\ UNCHANGED <<channel, srvVars>>
    /\ UNCHANGED fnVars

\* mutant: the failed transaction is not rolled back, the inserts stay
ProcessNoRollback ==
    /\ pc = "process"
    /\ failures < MaxFailures
    /\ failures' = failures + 1
    /\ outcome' = "tx_failed"
    /\ pc' = "sleep"
    /\ LET tabs == InsertAll([spans |-> spans, patches |-> state_patches],
                             ServiceName(batch), Decoded(batch), 1,
                             [i \in 1..Len(Decoded(batch)) |-> {}])
       IN spans' = tabs.spans /\ state_patches' = tabs.patches
    /\ UNCHANGED <<log, epoch, last_key, readStart, batch, poller_state, committed>>
    /\ UNCHANGED <<channel, srvVars>>
    /\ UNCHANGED fnVars

\* process_span_batch raises: ROLLBACK, the inner except logs the error
ProcessRollback ==
    /\ pc = "process"
    /\ failures < MaxFailures
    /\ failures' = failures + 1
    /\ outcome' = "tx_failed"
    /\ pc' = "sleep"
    /\ UNCHANGED <<log, epoch, last_key, readStart, batch, spans, state_patches,
                   poller_state, committed>>
    /\ UNCHANGED <<channel, srvVars>>
    /\ UNCHANGED fnVars

\* mutant: the save is handed to a background task and the loop goes on
\* without waiting for it
SaveStateDeferred ==
    /\ pc = "save"
    /\ pc' = "sleep"
    /\ UNCHANGED <<log, epoch, failures, last_key, readStart, batch, outcome,
                   spans, state_patches, poller_state, committed>>
    /\ UNCHANGED <<channel, srvVars>>
    /\ UNCHANGED fnVars

\* repo.upsert_last_key(last_key); session.commit()
SaveState ==
    /\ pc = "save"
    /\ poller_state' = upsert_last_key(poller_state, last_key)
    /\ outcome' = "saved"
    /\ pc' = "sleep"
    /\ UNCHANGED <<log, epoch, failures, last_key, readStart, batch,
                   spans, state_patches, committed>>
    /\ UNCHANGED <<channel, srvVars>>
    /\ UNCHANGED fnVars

\* mutant: the save sits outside the inner try and the outer handler
\* re-raises: the error leaves the loop, the finally clause closes the channel
SaveErrorPropagates ==
    /\ pc = "save"
    /\ failures < MaxFailures
    /\ failures' = failures + 1
    /\ outcome' = "save_failed"
    /\ pc' = "stopped"
    /\ channel' = "closed"
    /\ UNCHANGED <<log, epoch, last_key, readStart, batch, spans, state_patches,
                   poller_state, committed>>
    /\ UNCHANGED srvVars
    /\ UNCHANGED fnVars

\* the save raises: the inner except logs the error, the loop continues
SaveError ==
    /\ pc = "save"
    /\ failures < MaxFailures
    /\ failures' = failures + 1
    /\ outcome' = "save_failed"
    /\ pc' = "sleep"
    /\ UNCHANGED <<log, epoch, last_key, readStart, batch, spans, state_patches,
                   poller_state, committed>>
    /\ UNCHANGED <<channel, srvVars>>
    /\ UNCHANGED fnVars

\* the process dies and is started again: the coroutine's locals are lost,
\* the two stores keep what was committed
Restart ==
    /\ epoch < MaxRestarts
    /\ epoch' = epoch + 1
    /\ pc' = "connect"
    /\ last_key' = EmptyKey
    /\ readStart' = EmptyKey
    /\ batch' = << >>
    /\ outcome' = "none"
    /\ channel' = "none"
    /\ life' = "up"
    /\ UNCHANGED <<log, failures, spans, state_patches, poller_state, committed>>
    /\ UNCHANGED <<grpc_server, grpc_task, row_store, api_keys, calls>>
    /\ UNCHANGED fnVars

\* mutant: the poller is cancelled but not awaited: the shutdown goes on
\* while the poller is still where it was
CancelPollerNoWait ==
    /\ life = "up"
    /\ pc \in {"connect", "load", "sleep", "poll", "save", "failed"}
    /\ life' = "stop_grpc"
    /\ UNCHANGED <<log, pc, epoch, failures, last_key, readStart, batch, outcome,
                   spans, state_patches, poller_state, committed, channel>>
    /\ UNCHANGED <<grpc_server, grpc_task, row_store, api_keys, calls>>
    /\ UNCHANGED fnVars

\* lifespan shutdown: if not poller_task.done(): poller_task.cancel(); await
\* poller_task. CancelledError is raised at the await the poller is suspended
\* in; it is not an Exception, so neither except clause of the loop catches
\* it. Inside the outer try (sleep, read, save) the finally clause closes the
\* channel; the channel open and the cursor load precede that try. A task
\* cancelled before its first step never runs. A finished task is left alone.
CancelPoller ==
    /\ life = "up"
    /\ pc \in {"connect", "load", "sleep", "poll", "save", "failed"}
    /\ life' = "stop_grpc"
    /\ IF pc = "failed"
       THEN UNCHANGED <<pc, outcome, channel>>
       ELSE /\ pc' = "stopped"
            /\ outcome' = "cancelled"
            /\ channel' = (IF pc \in {"sleep", "poll", "save"} THEN "closed" ELSE channel)
    /\ UNCHANGED <<log, epoch, failures, last_key, readStart, batch,
                   spans, state_patches, poller_state, committed>>
    /\ UNCHANGED <<grpc_server, grpc_task, row_store, api_keys, calls>>
    /\ UNCHANGED fnVars

Next ==
    \/ Produce
    \/ Connect
    \/ LoadLastKey
    \/ Sleep
    \/ ReadError
    \/ ReadSpans
    \/ Decode
    \/ ProcessCommit
    \/ ProcessRollback
    \/ SaveState
    \/ SaveError
    \/ CancelPoller
    \/ Restart

Spec == Init /\ [][Next]_vars

\* the poller coroutine is scheduled whenever it can run, and a step that can
\* succeed is not failed forever: failures are transient (at most MaxFailures)
FairSpec ==
    /\ Spec
    /\ WF_vars(Connect) /\ WF_vars(LoadLastKey) /\ WF_vars(Sleep)
    /\ WF_vars(ReadSpans) /\ WF_vars(Decode)
    /\ WF_vars(ProcessCommit) /\ WF_vars(SaveState)

(* ------------------------ Internal Auth service ----------------------- *)
\* the text of one log entry, as the characters of its variable part
ErrorText == <<"e", "r", "r">>

\* key_prefix = api_key[:12] if len(api_key) >= 12 else "***"
KeyPrefix(api_key) ==
    IF Len(api_key) >= KeyPrefixLen THEN SubSeq(api_key, 1, KeyPrefixLen) ELSE Stars

\* mutant: the lookup matches on the logged prefix (key LIKE prefix%)
get_by_key_prefix(table, key) ==
    IF \E k \in table : KeyPrefix(k) = KeyPrefix(key)
    THEN CHOOSE k \in table : KeyPrefix(k) = KeyPrefix(key)
    ELSE Null

\* APIKeyRepository.get_by_key: select ... where key == key, scalar_one_or_none
get_by_key(table, key) == IF key \in table THEN key ELSE Null

\* mutant: the servicer keeps the key in an attribute of the one servicer
\* object, which a call received meanwhile overwrites
LookupKeyShared(c) ==
    IF \E d \in CallIds \ {c} : calls[d].pc = "lookup"
    THEN calls[CHOOSE d \in CallIds \ {c} : calls[d].pc = "lookup"].api_key
    ELSE calls[c].api_key

\* api_key = request.api_key: a local of the invocation
LookupKey(c) == calls[c].api_key

\* _grpc_server = create_grpc_server(); await _grpc_server.start(); then the
\* task waits in wait_for_termination
GrpcStart ==
    /\ grpc_task = "starting"
    /\ grpc_server' = "serving"
    /\ grpc_task' = "serving"
    /\ UNCHANGED <<life, row_store, api_keys, calls>>
    /\ UNCHANGED <<log, pc, epoch, failures, last_key, readStart, batch, outcome,
                   spans, state_patches, poller_state, committed, channel>>
    /\ UNCHANGED fnVars

\* create_grpc_server raises (the port is taken) or start raises: the error
\* is logged and raised again, the task has failed
GrpcStartError ==
    /\ grpc_task = "starting"
    /\ grpc_server' \in {"none", "created"}
    /\ grpc_task' = "failed"
    /\ UNCHANGED <<life, row_store, api_keys, calls>>
    /\ UNCHANGED <<log, pc, epoch, failures, last_key, readStart, batch, outcome,
                   spans, state_patches, poller_state, committed, channel>>
    /\ UNCHANGED fnVars

\* ValidateApiKey is invoked: the prefix is logged, the lookup is awaited
Receive(c, k) ==
    /\ grpc_server = "serving"
    /\ calls[c].pc = "idle"
    /\ calls' = [calls EXCEPT ![c] = [pc |-> "lookup", api_key |-> k, db_error |-> FALSE,
                                      is_valid |-> "none", logged |-> {KeyPrefix(k)},
                                      at_start |-> [stored |-> k \in api_keys,
                                                    deleted |-> k \in issued \ api_keys]]]
    /\ UNCHANGED <<life, grpc_server, grpc_task, row_store, api_keys>>
    /\ UNCHANGED <<log, pc, epoch, failures, last_key, readStart, batch, outcome,
                   spans, state_patches, poller_state, committed, channel>>
    /\ UNCHANGED fnVars

\* mutant: the answer an earlier invocation got for the same key is kept and
\* given again without a lookup
LookupReturnsCached(c) ==
    /\ grpc_server = "serving"
    /\ calls[c].pc = "lookup"
    /\ LET earlier == {d \in CallIds \ {c} :
                          /\ calls[d].pc = "done"
                          /\ ~calls[d].db_error
                          /\ calls[d].api_key = calls[c].api_key}
       IN calls' = [calls EXCEPT
              ![c].pc = "done",
              ![c].is_valid =
                  IF earlier # {} THEN calls[CHOOSE d \in earlier : TRUE].is_valid
                  ELSE get_by_key(api_keys, LookupKey(c)) # Null,
              ![c].logged = @ \cup {KeyPrefix(calls[c].api_key)}]
    /\ UNCHANGED <<life, grpc_server, grpc_task, row_store, api_keys>>
    /\ UNCHANGED <<log, pc, epoch, failures, last_key, readStart, batch, outcome,
                   spans, state_patches, poller_state, committed, channel>>
    /\ UNCHANGED fnVars

\* get_by_key returns: None answers is_valid=False, a row is_valid=True
LookupReturns(c) ==
    /\ grpc_server = "serving"
    /\ calls[c].pc = "lookup"
    /\ calls' = [calls EXCEPT ![c].pc = "done",
                              ![c].is_valid = (get_by_key(api_keys, LookupKey(c)) # Null),
                              ![c].logged = @ \cup {KeyPrefix(calls[c].api_key)}]
    /\ UNCHANGED <<life, grpc_server, grpc_task, row_store, api_keys>>
    /\ UNCHANGED <<log, pc, epoch, failures, last_key, readStart, batch, outcome,
                   spans, state_patches, poller_state, committed, channel>>
    /\ UNCHANGED fnVars

\* get_by_key raises: the error is logged, the answer is is_valid=False
LookupRaises(c) ==
    /\ grpc_server = "serving"
    /\ calls[c].pc = "lookup"
    /\ failures < MaxFailures
    /\ failures' = failures + 1
    /\ calls' = [calls EXCEPT ![c].pc = "done",
                              ![c].db_error = TRUE,
                              ![c].is_valid = FALSE,
                              ![c].logged = @ \cup {ErrorText}]
    /\ UNCHANGED <<life, grpc_server, grpc_task, row_store, api_keys>>
    /\ UNCHANGED <<log, pc, epoch, last_key, readStart, batch, outcome,
                   spans, state_patches, poller_state, committed, channel>>
    /\ UNCHANGED fnVars

(* ------------------------- API key management ------------------------ *)
\* the key values generate_key can hand out: never one it handed out before
CreatableKeys == {KeyX, KeyY}

\* POST /api_keys: create_api_key generates a fresh key, the repository adds
\* the row and commits
CreateKey(k) ==
    /\ k \notin issued
    /\ api_keys' = api_keys \cup {k}
    /\ issued' = issued \cup {k}
    /\ UNCHANGED <<life, grpc_server, grpc_task, row_store, calls>>
    /\ UNCHANGED <<log, pc, epoch, failures, last_key, readStart, batch, outcome,
                   spans, state_patches, poller_state, committed, channel>>
    /\ UNCHANGED <<otlp, request, session, rpc, conn>>

\* DELETE /api_keys/{id}: delete_by_id deletes the row of a stored key and
\* commits (for an id without a row the endpoint answers 404, nothing changes)
DeleteKey(k) ==
    /\ k \in api_keys
    /\ api_keys' = api_keys \ {k}
    /\ UNCHANGED <<life, grpc_server, grpc_task, row_store, calls>>
    /\ UNCHANGED <<log, pc, epoch, failures, last_key, readStart, batch, outcome,
                   spans, state_patches, poller_state, committed, channel>>
    /\ UNCHANGED fnVars

\* the Internal Auth service while keys are created and deleted over HTTP
KeyNext ==
    \/ GrpcStart
    \/ \E c \in CallIds, k \in RequestKeys : Receive(c, k)
    \/ \E c \in CallIds : LookupReturns(c)
    \/ \E c \in CallIds : LookupRaises(c)
    \/ \E k \in CreatableKeys : CreateKey(k)
    \/ \E k \in CreatableKeys : DeleteKey(k)

(* ----------------------------- lifespan ------------------------------- *)
\* the cursor load raises at startup: the error leaves the coroutine before
\* its try statement, the task has failed
LoadError ==
    /\ pc = "load"
    /\ failures < MaxFailures
    /\ failures' = failures + 1
    /\ pc' = "failed"
    /\ outcome' = "load_failed"
    /\ UNCHANGED <<log, epoch, last_key, readStart, batch,
                   spans, state_patches, poller_state, committed>>
    /\ UNCHANGED <<channel, srvVars>>
    /\ UNCHANGED fnVars

\* await stop_grpc_server(): a server object that exists is stopped (calls
\* still in flight after the grace period are aborted) and forgotten; the
\* serving task returns from wait_for_termination now or a little later
StopGrpcServer ==
    /\ life = "stop_grpc"
    /\ life' = "cancel_grpc"
    /\ IF grpc_server = "none"
       THEN UNCHANGED <<grpc_server, grpc_task, calls>>
       ELSE /\ grpc_server' = "stopped"
            /\ grpc_task' \in (IF grpc_task = "serving"
                                THEN {"serving", "finished"} ELSE {grpc_task})
            /\ calls' = [c \in CallIds |->
                            IF calls[c].pc = "lookup"
                            THEN [calls[c] EXCEPT !.pc = "aborted"] ELSE calls[c]]
    /\ UNCHANGED <<row_store, api_keys>>
    /\ UNCHANGED <<log, pc, epoch, failures, last_key, readStart, batch, outcome,
                   spans, state_patches, poller_state, committed, channel>>
    /\ UNCHANGED fnVars

\* if not grpc_task.done(): grpc_task.cancel(); await grpc_task
CancelGrpcTask ==
    /\ life = "cancel_grpc"
    /\ life' = "checkpoint"
    /\ grpc_task' = (IF grpc_task \in {"finished", "failed"} THEN grpc_task ELSE "cancelled")
    /\ UNCHANGED <<grpc_server, row_store, api_keys, calls>>
    /\ UNCHANGED <<log, pc, epoch, failures, last_key, readStart, batch, outcome,
                   spans, state_patches, poller_state, committed, channel>>
    /\ UNCHANGED fnVars

\* await checkpoint_wal(): PRAGMA wal_checkpoint(TRUNCATE)
CheckpointWal ==
    /\ life = "checkpoint"
    /\ life' = "dispose"
    /\ row_store' = [row_store EXCEPT !.checkpointed = TRUE]
    /\ UNCHANGED <<grpc_server, grpc_task, api_keys, calls>>
    /\ UNCHANGED <<log, pc, epoch, failures, last_key, readStart, batch, outcome,
                   spans, state_patches, poller_state, committed, channel>>
    /\ UNCHANGED fnVars

\* await engine.dispose()
DisposeEngine ==
    /\ life = "dispose"
    /\ life' = "exited"
    /\ row_store' = [row_store EXCEPT !.disposed = TRUE]
    /\ UNCHANGED <<grpc_server, grpc_task, api_keys, calls>>
    /\ UNCHANGED <<log, pc, epoch, failures, last_key, readStart, batch, outcome,
                   spans, state_patches, poller_state, committed, channel>>
    /\ UNCHANGED fnVars

\* the keys the api_keys table may hold
StoredKeys == {KeyX}

\* what poller_state can hold when the application starts: nothing, the row
\* that clear_state left with last_key NULL, or the key an earlier run saved
StartRows == {{}, {[id |-> 1, last_key |-> Null]}, {[id |-> 1, last_key |-> KeyOf(1)]}}

\* the application with an idle upstream: the poller and the gRPC server
\* start together, api_keys holds what the HTTP API stored earlier
ServerInit ==
    /\ log = << >>
    /\ pc = "connect"
    /\ epoch = 0
    /\ failures = 0
    /\ last_key = EmptyKey
    /\ readStart = EmptyKey
    /\ batch = << >>
    /\ outcome = "none"
    /\ spans = {}
    /\ state_patches = {}
    /\ poller_state \in StartRows
    /\ committed = {}
    /\ channel = "none"
    /\ life = "up"
    /\ grpc_server = "none"
    /\ grpc_task = "starting"
    /\ row_store = [checkpointed |-> FALSE, disposed |-> FALSE]
    /\ api_keys \in SUBSET StoredKeys
    /\ calls = [c \in CallIds |-> IdleCall]
    /\ otlp = NoCall
    /\ request = NoCall
    /\ session = NoSession
    /\ rpc = NoCall
    /\ conn = NoOperation
    /\ issued = api_keys

ServerNext ==
    \/ GrpcStart
    \/ GrpcStartError
    \/ \E c \in CallIds, k \in RequestKeys : Receive(c, k)
    \/ \E c \in CallIds : LookupReturns(c)
    \/ \E c \in CallIds : LookupRaises(c)
    \/ Connect
    \/ LoadLastKey
    \/ LoadError
    \/ Sleep
    \/ ReadError
    \/ ReadSpans
    \/ CancelPoller
    \/ StopGrpcServer
    \/ CancelGrpcTask
    \/ CheckpointWal
    \/ DisposeEngine

ServerSpec == ServerInit /\ [][ServerNext]_vars

\* ValidateApiKey calls interleaved with key creations and deletions
KeySpec == ServerInit /\ [][KeyNext]_vars

\* the lifespan coroutine is scheduled: a shutdown that has begun goes on
FairServerSpec ==
    /\ ServerSpec
    /\ WF_vars(StopGrpcServer) /\ WF_vars(CancelGrpcTask)
    /\ WF_vars(CheckpointWal) /\ WF_vars(DisposeEngine)

(* ------------------------------ helpers ------------------------------- *)
\* the row store's persisted cursor: absent (Null) or a key
Persisted == get_last_key(poller_state)

\* the poller is between two cycles
BetweenCycles == pc \in {"sleep", "poll"}

\* a row of spans carries the key of frame f
HasRow(f) == \E r \in spans : r.id = f.span_bytes.id

\* rows of state_patches for span id and event time t
PatchRows(id, t) == {p \in state_patches : p.id = id /\ p.event_time = t}

(* ------------------------------- C1 ----------------------------------- *)
\* C1: the persisted cursor is absent or the key of a frame the poller has read
\* and whose batch committed, and every decodable frame of the upstream log with
\* a key at or below the persisted cursor has its row in spans.
C1_PersistedCursorCoversSpans ==
    Persisted # Null =>
        /\ \E i \in 1..Len(log) : log[i].key_ulid = Persisted
        /\ committed # {}
        /\ \A i \in 1..Len(log) :
              (log[i].span_bytes.ok /\ LexLeq(log[i].key_ulid, Persisted)) => HasRow(log[i])

(* ------------------------------- C2 ----------------------------------- *)
\* a poll cycle issues its ReadSpans request (no restart in between)
IssuesRead == pc = "poll" /\ pc' \in {"sleep", "decode"} /\ epoch' = epoch

\* C2: when process_span_batch raised and rolled back, the cursor is not
\* advanced: the next cycle's read_spans uses the start cursor of the failed cycle.
C2_TxFailureRereadsBatch ==
    [][(outcome = "tx_failed" /\ IssuesRead) => readStart' = readStart]_vars

(* ------------------------------- C3 ----------------------------------- *)
\* C3: with transient failures only, every decodable frame of the upstream log
\* eventually has its row in spans, unless the poller is cancelled first.
C3_AtLeastOnce ==
    \A i \in 1..MaxLog :
        (i <= Len(log) /\ log[i].span_bytes.ok)
            ~> ((i <= Len(log) /\ HasRow(log[i])) \/ outcome = "cancelled")

(* ------------------------------- C8 ----------------------------------- *)
\* C8: when the cursor save failed after a commit, the next cycle reads again
\* from the cursor that preceded the batch, and the re-delivery leaves the rows
\* of spans as they were.
C8_SaveFailureRedelivers ==
    [][(outcome = "save_failed" /\ IssuesRead) =>
          (readStart' = readStart /\ spans' = spans)]_vars

(* ------------------------------- C9 ----------------------------------- *)
\* C9: when every frame of a non-empty batch fails to parse, nothing is
\* inserted or saved, the cursor is unchanged and the next cycle reads from the
\* same start cursor.
C9_AllCorruptKeepsCursor ==
    /\ [][(pc = "decode" /\ outcome' = "all_corrupt") =>
            (last_key' = readStart /\
             UNCHANGED <<spans, state_patches, poller_state>>)]_vars
    /\ [][(outcome = "all_corrupt" /\ IssuesRead) => readStart' = readStart]_vars

(* ------------------------------- C4 ----------------------------------- *)
\* the (trace_id, span_id) pairs of the frames processed in committed transactions
CommittedIds == {log[i].span_bytes.id : i \in committed}

\* C4: however often a batch is delivered and processed, spans holds one row
\* per distinct (trace_id, span_id) among the decoded frames that were
\* committed, and no two rows share a primary key.
C4_SpansIdempotent ==
    /\ \A r1, r2 \in spans : r1.id = r2.id => r1 = r2
    /\ Cardinality(spans) = Cardinality(CommittedIds)

\* a frame whose identity no other frame shares was committed twice (its
\* set_state event left two patch rows), and spans holds its single row
C4_Witness ==
    \E i \in committed :
        /\ \A j \in 1..Len(log) : j # i => log[j].span_bytes.id # log[i].span_bytes.id
        /\ log[i].span_bytes.ev = 1
        /\ Cardinality(PatchRows(log[i].span_bytes.id, 1)) = 2
        /\ Cardinality({r \in spans : r.id = log[i].span_bytes.id}) = 1

(* ------------------------------- C5 ----------------------------------- *)
\* C5: within one run of the process no step of a poll cycle, failing or
\* not, moves the in-memory cursor backwards in byte-lexicographic order.
C5_CursorMonotone ==
    [][epoch' = epoch => LexLeq(last_key, last_key')]_vars

\* a cycle whose transaction failed has nevertheless advanced the cursor
C5_Witness ==
    outcome = "tx_failed" /\ LexLess(readStart, last_key)

(* ------------------------------- C6 ----------------------------------- *)
\* every set_state event of frame i has at least one row in state_patches
HasPatches(i) ==
    \A t \in 1..log[i].span_bytes.ev : PatchRows(log[i].span_bytes.id, t) # {}

\* C6 (as stated): the span rows and the patch rows of a batch are visible
\* together or not at all: a committed span has all its patch rows, and a
\* patch row has its span row.
C6_SpanAndPatchesTogether ==
    /\ \A i \in committed : HasRow(log[i]) /\ HasPatches(i)
    /\ \A p \in state_patches : \E r \in spans : r.id = p.id

\* C6 (amended): rows come from committed transactions only, every span of a
\* committed batch has its row, a patch row always has its span row, and a
\* span row lacks a patch row only when a patch insert raised and was swallowed.
C6_AtomicUpToSwallowedPatch ==
    /\ \A r \in spans : r.id \in CommittedIds
    /\ \A i \in committed : HasRow(log[i])
    /\ \A p \in state_patches :
          /\ \E r \in spans : r.id = p.id
          /\ \E i \in committed :
                log[i].span_bytes.id = p.id /\ p.event_time <= log[i].span_bytes.ev
    /\ failures = 0 => \A i \in committed : HasPatches(i)

\* a span row was committed while the insert of its patch raised
C6_Witness ==
    \E i \in committed :
        /\ log[i].span_bytes.ev = 1
        /\ HasRow(log[i])
        /\ PatchRows(log[i].span_bytes.id, 1) = {}

(* ------------------------------- C7 ----------------------------------- *)
\* C7: for every set_state event of an ingested span exactly one row of
\* state_patches carries the span's key and the event's time; stated for the
\* claim's own case, a re-delivery: no insert has failed and the span was
\* produced under one frame only.
C7_OnePatchRowPerEvent ==
    \A i \in committed :
        (/\ failures = 0
         /\ \A j \in 1..Len(log) : j # i => log[j].span_bytes.id # log[i].span_bytes.id)
        => \A t \in 1..log[i].span_bytes.ev :
              Cardinality(PatchRows(log[i].span_bytes.id, t)) = 1

(* ------------------------------- C10 ---------------------------------- *)
\* the batch holds a frame that decodes and a frame that does not
Mixed(b) ==
    /\ \E i \in 1..Len(b) : b[i].span_bytes.ok
    /\ \E i \in 1..Len(b) : ~b[i].span_bytes.ok

\* C10: a batch mixing decodable and corrupt frames moves the in-memory
\* cursor to the key of its last frame, and once its cycle has committed and
\* saved, every decodable frame has its row and the persisted cursor is that
\* same key, whether or not the last frame was corrupt.
C10_MixedBatchAdvances ==
    /\ (Mixed(batch) /\ pc \in {"decode", "process", "save", "sleep", "poll"})
          => last_key = batch[Len(batch)].key_ulid
    /\ (Mixed(batch) /\ outcome = "saved" /\ BetweenCycles)
          => /\ \A i \in 1..Len(batch) : batch[i].span_bytes.ok => HasRow(batch[i])
             /\ Persisted = batch[Len(batch)].key_ulid

\* a saved cycle whose batch ended in a corrupt frame
C10_Witness ==
    /\ outcome = "saved" /\ BetweenCycles
    /\ Mixed(batch)
    /\ ~batch[Len(batch)].span_bytes.ok
    /\ Persisted = batch[Len(batch)].key_ulid

(* ------------------------------- C11 ---------------------------------- *)
\* C11: when the upstream read fails, before or in the middle of the stream,
\* the in-memory cursor, the persisted cursor, spans and state_patches are
\* unchanged, the poller goes back to sleeping, and the next cycle reads with
\* the same cursor.
C11_ReadErrorChangesNothing ==
    /\ [][(pc = "poll" /\ pc' # "poll" /\ outcome' = "read_error" /\ epoch' = epoch) =>
            (pc' = "sleep" /\
             UNCHANGED <<last_key, poller_state, spans, state_patches>>)]_vars
    /\ [][(outcome = "read_error" /\ IssuesRead) => readStart' = readStart]_vars

\* a read failed while frames were waiting beyond a cursor that had advanced
C11_Witness ==
    /\ outcome = "read_error" /\ pc = "sleep"
    /\ last_key # EmptyKey
    /\ ReadSpansStream(last_key) # << >>

(* ------------------------------- C12 ---------------------------------- *)
\* C12: when the read returns no frame, the cycle ends at once: cursor,
\* persisted cursor, spans and state_patches are unchanged, and neither a
\* store transaction nor a cursor save is attempted (the poller sleeps).
C12_EmptyReadChangesNothing ==
    [][(pc = "poll" /\ pc' # "poll" /\ outcome' = "empty" /\ epoch' = epoch) =>
          (pc' = "sleep" /\
           UNCHANGED <<last_key, poller_state, spans, state_patches, committed>>)]_vars

\* an empty read by a poller that has caught up with the log
C12_Witness ==
    /\ outcome = "empty" /\ pc = "sleep"
    /\ last_key # EmptyKey
    /\ spans # {}

(* ------------------------------- C13 ---------------------------------- *)
\* the ways a poll cycle ends in an error
ErrorOutcomes == {"read_error", "all_corrupt", "tx_failed", "save_failed"}

\* C13: no error of a poll cycle leaves the loop: a cycle that failed has
\* left the poller between two cycles, where the sleep can end and the next
\* read can be issued, and only cancellation stops the coroutine.
C13_ErrorsStayInLoop ==
    /\ pc = "stopped" => outcome = "cancelled"
    /\ outcome \in ErrorOutcomes => BetweenCycles
    /\ pc = "sleep" => ENABLED Sleep
    /\ pc = "poll" => ENABLED ReadSpans

\* the poller is about to poll again after a cycle that failed
C13_Witness ==
    pc = "poll" /\ outcome \in ErrorOutcomes /\ failures = MaxFailures

(* ------------------------------- C14 ---------------------------------- *)
\* C14: a poller cancelled at any of its suspension points (channel open,
\* cursor load, sleep, stream read, cursor save) has stopped with its upstream
\* channel closed.
C14_CancelClosesChannel ==
    outcome = "cancelled" => (pc = "stopped" /\ channel # "open")

(* ------------------------------- C15 ---------------------------------- *)
\* the order of the steps of a poll cycle, with its early ends
CycleOrder ==
    {<<"sleep", "poll">>, <<"poll", "decode">>, <<"decode", "process">>,
     <<"process", "save">>, <<"save", "sleep">>,
     <<"poll", "sleep">>, <<"decode", "sleep">>, <<"process", "sleep">>}

\* C15: one poll cycle is in flight at a time and its steps run in the order
\* read, decode, insert and commit, save; a read is issued only when the
\* previous cycle's save has completed or the cycle has ended otherwise.
C15_OneCycleInOrder ==
    [][(epoch' = epoch /\ pc' # pc /\ pc' # "stopped"
        /\ pc \in {"sleep", "poll", "decode", "process", "save"}) =>
          (/\ <<pc, pc'>> \in CycleOrder
           /\ IssuesRead => outcome # "running"
           /\ pc = "save" => outcome' \in {"saved", "save_failed"})]_vars

\* a second read of the same run was issued after a cycle that saved
C15_Witness ==
    /\ pc = "decode" /\ epoch = 0
    /\ Persisted # Null
    /\ readStart = Persisted

(* ------------------------------- C20 ---------------------------------- *)
\* the cursor a starting poller takes from the row store
StartCursor == IF Persisted = Null THEN EmptyKey ELSE Persisted

\* C20: a missing poller_state row and a row whose last_key is NULL both
\* start the poller with the empty cursor, a stored key starts it with
\* exactly that key (a load that is neither cancelled nor raises), and the
\* first read of the run uses that cursor.
C20_StartCursorFromStore ==
    /\ [][(pc = "load" /\ pc' # "load" /\ epoch' = epoch
            /\ outcome' \notin {"cancelled", "load_failed"}) =>
            (pc' = "sleep" /\ last_key' = StartCursor)]_vars
    /\ [][(outcome = "none" /\ IssuesRead) => readStart' = StartCursor]_vars

\* a poller started over a saved key is about to issue its first read with it
C20_Witness ==
    /\ pc = "poll" /\ outcome = "none"
    /\ Persisted # Null
    /\ last_key = Persisted

(* ------------------------------- C16 ---------------------------------- *)
\* C16: every finished ValidateApiKey call has answered true or false, and
\* true exactly when the lookup did not raise and api_keys holds the
\* request's key itself; a miss, the empty key and a lookup error answer false.
C16_FailClosedTotal ==
    \A c \in CallIds :
        calls[c].pc = "done" =>
            /\ calls[c].is_valid \in BOOLEAN
            /\ calls[c].is_valid = TRUE <=>
                  (~calls[c].db_error /\ calls[c].api_key \in api_keys)

\* a lookup for a stored key raised and the call answered false
C16_Witness ==
    \E c \in CallIds :
        /\ calls[c].pc = "done" /\ calls[c].db_error
        /\ calls[c].api_key \in api_keys
        /\ calls[c].is_valid = FALSE

(* ------------------------------- C17 ---------------------------------- *)
\* the text holds the characters of k in a row
Contains(text, k) ==
    \E i \in 1..(Len(text) - Len(k) + 1) : SubSeq(text, i, i + Len(k) - 1) = k

\* C17: no log entry of a call holds the call's whole api_key: a key
\* shorter than 12 characters leaves only the placeholder, a longer one at
\* most its first 12 characters.
C17_NoFullKeyLogged ==
    \A c \in CallIds : \A entry \in calls[c].logged :
        /\ calls[c].api_key # << >> => ~Contains(entry, calls[c].api_key)
        /\ (Len(calls[c].api_key) < KeyPrefixLen /\ entry # ErrorText) => entry = Stars
        /\ Len(entry) <= KeyPrefixLen

PollerDone == pc \in {"stopped", "failed"}
GrpcTaskDone == grpc_task \in {"finished", "failed", "cancelled"}

\* C19: the shutdown goes on past the poller only when the poller task is
\* done, the WAL is checkpointed only when both tasks are done, the
\* connections are disposed only after the checkpoint, and a shutdown that
\* has begun reaches the checkpoint and the dispose whatever the tasks did.
C19_ShutdownOrder ==
    /\ [](life # "up" => PollerDone)
    /\ [](life \in {"checkpoint", "dispose", "exited"} => GrpcTaskDone)
    /\ [](row_store.checkpointed => (PollerDone /\ GrpcTaskDone))
    /\ [](row_store.disposed => row_store.checkpointed)
    /\ (life # "up") ~> (row_store.checkpointed /\ row_store.disposed)

\* a shutdown has finished although the poller had failed at startup and the
\* gRPC server had not come up
C19_Witness ==
    /\ life = "exited" /\ row_store.disposed
    /\ pc = "failed"
    /\ grpc_task = "failed"

(* ------------------------------- C21 ---------------------------------- *)
\* C21: after any sequence of saves and clears poller_state holds at most one
\* row and its id is 1; a committed save on the empty table inserts the row,
\* on an existing row it overwrites last_key, and a load after a committed
\* save(k) returns k.
C21_SingletonRow ==
    /\ [](Cardinality(poller_state) <= 1 /\ \A r \in poller_state : r.id = 1)
    /\ [](session.last_commit \in SavedKeys =>
             poller_state = {[id |-> 1, last_key |-> session.last_commit]})
    /\ [][(session.last_commit \in SavedKeys /\ session'.loaded # session.loaded)
            => session'.loaded = session.last_commit]_vars

\* a load returned the key of a first save, then a second save overwrote it
C21_Witness ==
    /\ session.last_commit = KeyOf(2)
    /\ session.loaded = KeyOf(1)
    /\ poller_state = {[id |-> 1, last_key |-> KeyOf(2)]}

(* ------------------------------- C22 ---------------------------------- *)
\* the keys of the JSON object
JsonKeys(obj) == {p.key : p \in obj}

\* C22: attributes_json of every row holds no key of a dedicated column, and
\* holds every other attribute key of the span whose value is set.
C22_FilterCorrect ==
    otlp.op = "process_single_span" =>
        /\ JsonKeys(otlp.row.attributes_json) \cap JUNJO_FILTERED_ATTRIBUTES = {}
        /\ \A i \in 1..Len(otlp.span.attributes) :
              (/\ otlp.span.attributes[i].key \notin JUNJO_FILTERED_ATTRIBUTES
               /\ otlp.span.attributes[i].value.type # "none")
              => otlp.span.attributes[i].key \in JsonKeys(otlp.row.attributes_json)

\* a span with extracted, legacy and ordinary attributes kept only the ordinary one
C22_Witness ==
    /\ otlp.op = "process_single_span"
    /\ \E i \in 1..Len(otlp.span.attributes) : otlp.span.attributes[i].key = "node.id"
    /\ \E i \in 1..Len(otlp.span.attributes) :
          otlp.span.attributes[i].key = "junjo.workflow.state.start"
    /\ JsonKeys(otlp.row.attributes_json) = {"http.method"}

(* ------------------------------- C23 ---------------------------------- *)
\* the three workflow state columns of the row
WfColumns(row) ==
    {row.junjo_wf_state_start, row.junjo_wf_state_end, row.junjo_wf_graph_structure}

\* C23: the three workflow state columns of every row are strings (never
\* null); on a workflow span each parses as a JSON object; on a span that is
\* neither workflow nor subflow each is "{}".
C23_SchemaStable ==
    otlp.op = "process_single_span" =>
        /\ \A c \in WfColumns(otlp.row) : c \in STRING
        /\ otlp.row.junjo_span_type = "workflow" =>
              \A c \in WfColumns(otlp.row) : JsonKind(c) = "object"
        /\ otlp.row.junjo_span_type \notin {"workflow", "subflow"} =>
              WfColumns(otlp.row) = {EmptyObject}

(* ------------------------------- C24 ---------------------------------- *)
\* WHERE parent_span_id IS NULL of the root-span query
IsRootRow(row) == row.parent_span_id = Null

\* C24: an empty or all-zero parent_span_id is stored as NULL, so the row is a
\* root span; any other is stored as its 16 lowercase hexadecimal digits.
C24_RootSpanAbsentParent ==
    otlp.op = "process_single_span" =>
        IF otlp.span.parent_span_id \in {<< >>, ZeroParent}
        THEN IsRootRow(otlp.row)
        ELSE /\ otlp.row.parent_span_id = Hex(otlp.span.parent_span_id)
             /\ Len(otlp.row.parent_span_id) = 2 * SpanIdLen
             /\ \A i \in 1..Len(otlp.row.parent_span_id) :
                   \E d \in 1..Len(HexDigits) : otlp.row.parent_span_id[i] = HexDigits[d]

(* ------------------------------- C25 ---------------------------------- *)
\* the service.name of the resource of one frame, or the default
ServiceNameOfFrame(f) ==
    IF f.resource_bytes.service_name = "NULL"
    THEN "NO_SERVICE_NAME"
    ELSE f.resource_bytes.service_name

\* C25: the rows a batch adds carry the service name of the resource of the
\* first frame of the batch that decoded (the default when it names none).
C25_ServiceNameFromFirstDecoded ==
    [][(pc = "process" /\ pc' = "save") =>
          \A r \in spans' \ spans :
              r.service_name = ServiceNameOfFrame(Decoded(batch)[1])]_vars

(* ------------------------------- C26 ---------------------------------- *)
\* C26: no step updates or deletes a span row: every row of the table is in
\* the table, with every column as it was, after any step, also after an
\* insert of the same key with other values or another service name.
C26_RowsNeverChange == [][\A r \in spans : r \in spans']_vars

\* span 1 was committed twice, from frames with different events and under
\* different service names, and the table still holds only the first row
C26_Witness ==
    /\ \E i \in committed : \E j \in committed :
          /\ i < j
          /\ log[i].span_bytes = [ok |-> TRUE, id |-> 1, ev |-> 0]
          /\ log[j].span_bytes = [ok |-> TRUE, id |-> 1, ev |-> 1]
    /\ spans = {[id |-> 1, service_name |-> "NO_SERVICE_NAME", events |-> 0]}

(* ------------------------------- C27 ---------------------------------- *)
\* C27: a read helper called with a limit outside 1..10000 answers 422
\* without querying the store; called without a limit it queries with 500;
\* a query returns at most limit rows, ordered by start_time descending.
C27_LimitChecked ==
    request.op \in Endpoints =>
        /\ ("limit" \in DOMAIN request.params /\ request.params.limit \notin 1..10000)
              => (request.status = 422 /\ ~request.queried /\ request.rows = << >>)
        /\ "limit" \notin DOMAIN request.params
              => (request.queried /\ request.limit = 500)
        /\ request.queried =>
              /\ Len(request.rows) <= request.limit
              /\ \A i \in 1..Len(request.rows) : \A j \in 1..Len(request.rows) :
                    i < j => request.rows[i].start_time >= request.rows[j].start_time

\* limit=10001 was rejected on a store that holds rows of the service
C27_Witness ==
    /\ request.op = "get_service_spans"
    /\ request.params = [limit |-> 10001]
    /\ request.table = QueryRows
    /\ request.service_name = "svcA"
    /\ request.status = 422

(* ------------------------------- C28 ---------------------------------- *)
\* C28: while the poller runs its loop (its cursor is loaded), the in-memory
\* cursor is never behind the persisted one; right after a successful save the
\* two are equal; a run that has not yet completed a read (so also every run
\* after a restart) holds exactly the persisted cursor, whatever the previous
\* run had advanced to.
C28_CursorAheadOfStore ==
    /\ pc \in {"sleep", "poll", "decode", "process", "save"}
          => LexLeq(StartCursor, last_key)
    /\ (outcome = "saved" /\ BetweenCycles) => last_key = Persisted
    /\ (outcome = "none" /\ BetweenCycles) => last_key = StartCursor

\* after a restart the cursor is the saved key although a later frame had
\* been read and committed to the span store without its key being saved
C28_Witness ==
    /\ epoch = 1 /\ pc = "sleep" /\ outcome = "none"
    /\ Persisted # Null
    /\ last_key = Persisted
    /\ \E i \in committed : i > IdxOf(Persisted)

(* ------------------------------- C29 ---------------------------------- *)
\* C29: in the sleep, the stream read, the span-store transaction and the
\* cursor save of a running poller the event loop is free: a cancellation
\* can be delivered to the poller there.
C29_SuspendsAtEveryIO ==
    (life = "up" /\ pc \in {"sleep", "poll", "process", "save"}) => ENABLED CancelPoller

RECURSIVE PatchesKept(_, _, _)
PatchesKept(ps, failed, i) ==
    IF i > Len(ps) THEN 0
    ELSE (ps[i].span_bytes.ev - Cardinality(failed[i])) + PatchesKept(ps, failed, i + 1)

\* C31: whatever patch inserts raise, process_span_batch does not raise (the
\* batch commits and the poller goes on to save the cursor), every span of the
\* batch has its row, and every set_state event whose insert did not raise has
\* its patch row, also the events and spans after the one that failed.
C31_PatchFailureSwallowed ==
    otlp.op = "process_span_batch" =>
        /\ ~otlp.res.raised
        /\ \A i \in 1..Len(otlp.spans) :
              /\ \E r \in otlp.res.tabs.spans : r.id = otlp.spans[i].span_bytes.id
              /\ \A t \in 1..otlp.spans[i].span_bytes.ev :
                    t \notin otlp.failed[i] =>
                        \E q \in otlp.res.tabs.patches :
                            q.id = otlp.spans[i].span_bytes.id /\ q.event_time = t
        /\ Cardinality(otlp.res.tabs.patches) = PatchesKept(otlp.spans, otlp.failed, 1)

\* the first patch of span 1 failed: its second patch and span 2 with its
\* patch were still written
C31_Witness ==
    /\ otlp.op = "process_span_batch"
    /\ otlp.spans = <<[span_bytes |-> [ok |-> TRUE, id |-> 1, ev |-> 2]],
                      [span_bytes |-> [ok |-> TRUE, id |-> 2, ev |-> 1]]>>
    /\ otlp.failed = <<{1}, {}>>
    /\ {r.id : r \in otlp.res.tabs.spans} = {1, 2}
    /\ {<<q.id, q.event_time>> : q \in otlp.res.tabs.patches} = {<<1, 2>>, <<2, 1>>}

(* ------------------------------- C32 ---------------------------------- *)
\* C32: a read_spans call whose stream ends OK returns every streamed record
\* once and in stream order, so its last element carries the highest key; a
\* call whose RPC fails raises and returns no list, however many records had
\* arrived.
C32_ReadCollectsWholeStream ==
    rpc.op = "read_spans" =>
        /\ (rpc.stub /\ rpc.stream.status = "OK") =>
              /\ ~rpc.res.raised
              /\ Len(rpc.res.spans) = Len(rpc.stream.records)
              /\ \A i \in 1..Len(rpc.res.spans) :
                    /\ rpc.res.spans[i] = rpc.stream.records[i]
                    /\ LexLeq(rpc.res.spans[i].key_ulid,
                              rpc.res.spans[Len(rpc.res.spans)].key_ulid)
        /\ rpc.stream.status # "OK" =>
              (rpc.res.raised /\ "spans" \notin DOMAIN rpc.res)

\* the RPC failed after two records had arrived: the call raised
C32_Witness ==
    /\ rpc.op = "read_spans"
    /\ rpc.stub
    /\ rpc.stream.status = "UNAVAILABLE"
    /\ Len(rpc.stream.records) = 2
    /\ rpc.res.raised

(* ------------------------------- C33 ---------------------------------- *)
\* C33: when a span store operation has returned or raised, the connection it
\* opened is closed and no transaction is open, whichever of connect, BEGIN,
\* an insert, COMMIT, ROLLBACK or the query failed; a connection is open only
\* while its operation runs.
C33_ConnectionReleased ==
    /\ conn.result \in {"returned", "raised"} <=> conn.at = "closed"
    /\ conn.at \in {"idle", "closed"} => (~conn.open /\ ~conn.tx)
    /\ conn.tx => conn.open

\* process_span_batch raised after BEGIN and then ROLLBACK failed: the
\* connection is closed
C33_Witness ==
    /\ conn.op = "process_span_batch"
    /\ conn.at = "closed"
    /\ conn.failed = {"BEGIN", "ROLLBACK"}
    /\ conn.result = "raised"
    /\ ~conn.open

(* ------------------------------- C34 ---------------------------------- *)
\* C34: the poller is in its loop only with the channel open; it enters the
\* loop only from the cursor load, which follows the connect, and enters it at
\* the sleep; a read is issued only from the poll step, which is entered only
\* from the sleep: never from the startup steps directly.
C34_StartupOrder ==
    /\ [](pc \in {"sleep", "poll", "decode", "process", "save"} => channel = "open")
    /\ [][(pc' # pc /\ epoch' = epoch) =>
            /\ pc = "connect" => pc' \in {"load", "stopped"}
            /\ pc = "load" => pc' \in {"sleep", "stopped", "failed"}
            /\ pc' = "poll" => pc = "sleep"
            /\ IssuesRead => (pc = "poll" /\ channel = "open")]_vars

\* the first read of a run without saved state has been issued, after the
\* connect, the load and the sleep
C34_Witness ==
    /\ pc = "decode" /\ epoch = 0
    /\ Persisted = Null
    /\ readStart = EmptyKey
    /\ channel = "open"

(* ------------------------------- C35 ---------------------------------- *)
\* C35: a state patch row carries the span's junjo.id as workflow_id exactly
\* when the span's type is "workflow" and as node_id exactly when it is "node",
\* and "" otherwise; both are "" for a subflow or untyped span, and the two
\* are never both non-empty.
C35_PatchIdentifiers ==
    otlp.op = "process_state_patches" =>
        LET HasString(key, v) ==
                \E i \in 1..Len(otlp.span.attributes) :
                    /\ otlp.span.attributes[i].key = key
                    /\ otlp.span.attributes[i].value = [type |-> "string_value", v |-> v]
            JunjoId ==
                IF \E v \in {"j1", "j2"} : HasString("junjo.id", v)
                THEN CHOOSE v \in {"j1", "j2"} : HasString("junjo.id", v)
                ELSE ""
        IN /\ otlp.patch.workflow_id =
                 (IF HasString("junjo.span_type", "workflow") THEN JunjoId ELSE "")
           /\ otlp.patch.node_id =
                 (IF HasString("junjo.span_type", "node") THEN JunjoId ELSE "")
           /\ otlp.patch.workflow_id = "" \/ otlp.patch.node_id = ""

\* the patch of a node span carries its junjo.id as node_id only
C35_Witness ==
    /\ otlp.op = "process_state_patches"
    /\ \E i \in 1..Len(otlp.span.attributes) :
          /\ otlp.span.attributes[i].key = "junjo.span_type"
          /\ otlp.span.attributes[i].value = [type |-> "string_value", v |-> "node"]
    /\ otlp.patch.node_id = "j1"
    /\ otlp.patch.workflow_id = ""

(* ------------------------------- C36 ---------------------------------- *)
\* C36: convert_kind maps 0..5 to UNSPECIFIED, INTERNAL, SERVER, CLIENT,
\* PRODUCER, CONSUMER in this order and every other integer to UNSPECIFIED.
C36_KindEnumerants ==
    otlp.op = "convert_kind" =>
        otlp.res = (CASE otlp.kind = 1 -> "INTERNAL"
                      [] otlp.kind = 2 -> "SERVER"
                      [] otlp.kind = 3 -> "CLIENT"
                      [] otlp.kind = 4 -> "PRODUCER"
                      [] otlp.kind = 5 -> "CONSUMER"
                      [] OTHER -> "UNSPECIFIED")

(* ------------------------------- C37 ---------------------------------- *)
\* C37: the JSON written for an attribute, parsed back, holds under the
\* attribute's key the same string, integer, boolean or double; for a bytes
\* attribute the lowercase hex of the bytes as a string; and no member at all
\* (not a null) for a value with no field set.
C37_ConversionLaws ==
    otlp.op = "convert_attributes_to_json" =>
        CASE otlp.value.type = "none" -> otlp.json = {} /\ otlp.parsed = {}
          [] otlp.value.type = "bytes_value" ->
                /\ Cardinality(otlp.parsed) = 1
                /\ \A m \in otlp.parsed :
                      /\ m.key = otlp.key
                      /\ m.value.py = "str"
                      /\ Len(m.value.v) = 2 * Len(otlp.value.v)
                      /\ \A i \in 1..Len(otlp.value.v) :
                            \E hi \in 0..15 : \E lo \in 0..15 :
                                /\ otlp.value.v[i] = 16 * hi + lo
                                /\ m.value.v[2 * i - 1] = HexDigits[hi + 1]
                                /\ m.value.v[2 * i] = HexDigits[lo + 1]
          [] OTHER ->
                /\ Cardinality(otlp.parsed) = 1
                /\ \A m \in otlp.parsed :
                      /\ m.key = otlp.key
                      /\ m.value.py =
                            (CASE otlp.value.type = "string_value" -> "str"
                               [] otlp.value.type = "int_value" -> "int"
                               [] otlp.value.type = "double_value" -> "float"
                               [] OTHER -> "bool")
                      /\ m.value.v = otlp.value.v

\* a string with a quote and a non-ASCII character went through its escaped
\* JSON text and came back unchanged
C37_Witness ==
    /\ otlp.op = "convert_attributes_to_json"
    /\ otlp.value = [type |-> "string_value", v |-> <<"\"", "U+00E9">>]
    /\ \E m \in otlp.json :
          m.text = <<"\"", "\\", "\"", "\\", "u", "0", "0", "e", "9", "\"">>
    /\ \E m \in otlp.parsed : m.value.v = <<"\"", "U+00E9">>

(* ------------------------------- C38 ---------------------------------- *)
\* C38: the span rows and the state-patch rows that one poll cycle commits all
\* carry one service name, that of the resource of one frame of the batch,
\* also when the frames of the batch name different services.
C38_OneServicePerCycle ==
    [][(pc = "process" /\ pc' = "save") =>
          \E i \in 1..Len(batch) :
              /\ \A r \in spans' \ spans :
                    r.service_name = ServiceNameOfFrame(batch[i])
              /\ \A p \in state_patches' \ state_patches :
                    p.service_name = ServiceNameOfFrame(batch[i])]_vars

\* the first cycle committed a batch of a span of svcB followed by a span of
\* svcA with a state patch: both rows and the patch are stored under svcB
C38_Witness ==
    /\ pc = "save"
    /\ Len(batch) = 2
    /\ batch[1].span_bytes = [ok |-> TRUE, id |-> 2, ev |-> 0]
    /\ batch[2].span_bytes = [ok |-> TRUE, id |-> 1, ev |-> 1]
    /\ ServiceNameOfFrame(batch[1]) = "svcB"
    /\ ServiceNameOfFrame(batch[2]) = "svcA"
    /\ spans = {[id |-> 2, service_name |-> "svcB", events |-> 0],
                [id |-> 1, service_name |-> "svcB", events |-> 1]}
    /\ Cardinality(state_patches) = 1
    /\ \A p \in state_patches : p.id = 1 /\ p.service_name = "svcB"

(* ------------------------------- C39 ---------------------------------- *)
\* C39 as stated: an answered call for a key whose deletion had committed
\* when the call was received says is_valid=false, and an answered call for a
\* key whose creation had committed when the call was received says
\* is_valid=true.
C39_LaterCallsFollowTable ==
    \A c \in CallIds :
        calls[c].pc = "done" =>
            /\ calls[c].at_start.deleted => calls[c].is_valid = FALSE
            /\ calls[c].at_start.stored => calls[c].is_valid = TRUE

\* C39 amended: every answer is computed from api_keys as it is at the
\* lookup, nothing is kept from an earlier call: the answer is true exactly
\* when the key is stored at that moment and the lookup did not raise. So a
\* call received after the key's deletion committed answers false, and a call
\* received after its creation committed answers true when the key has not
\* been deleted and the lookup did not raise.
C39_NoCache ==
    /\ [](\A c \in CallIds :
            calls[c].pc = "done" =>
                /\ calls[c].at_start.deleted => calls[c].is_valid = FALSE
                /\ (/\ calls[c].at_start.stored
                    /\ calls[c].api_key \in api_keys
                    /\ ~calls[c].db_error) => calls[c].is_valid = TRUE)
    /\ [][\A c \in CallIds :
             (calls[c].pc = "lookup" /\ calls'[c].pc = "done") =>
                 calls'[c].is_valid =
                     (calls[c].api_key \in api_keys /\ ~calls'[c].db_error)]_vars

\* KeyX was valid for a first call and was then deleted, KeyY was created: a
\* call for KeyX received after the deletion was refused
C39_Witness ==
    /\ KeyX \in issued \ api_keys
    /\ KeyY \in api_keys
    /\ calls["c1"].pc = "done" /\ calls["c1"].api_key = KeyX
    /\ calls["c1"].is_valid = TRUE
    /\ calls["c2"].pc = "done" /\ calls["c2"].api_key = KeyX
    /\ calls["c2"].at_start.deleted /\ calls["c2"].is_valid = FALSE

====
